---- MODULE Spec2Model ----
(***************************************************************************)
(* FikaConnect dispatch core: the bookings and drivers documents, the      *)
(* client writes the security rules admit, the onCreate fare handler       *)
(* (validateAndFinalizeBooking), the onUpdate driver-assignment handler    *)
(* (assignDriverToBooking), the driver client's location ingestion         *)
(* (updateDriverLocationInFirestore) and the tracking page's read of a     *)
(* shared tracking session (initializeTracking).                           *)
(*                                                                         *)
(* Every await of a handler is a point where other handlers and clients    *)
(* run, so a handler is one action per segment between two awaits that     *)
(* touch the documents.  Administrative writes (isAdmin) are not           *)
(* restricted by the rules and are not among the modelled actors.          *)
(***************************************************************************)
EXTENDS Integers, Sequences, FiniteSets, TLC

\* ------------------------------------------------------------------ bounds
NumBookings == 2
NumDrivers == 2
MaxHandlers == 2
MaxScore == 2
MaxCoord == 2        \* coordinates of a submitted booking: 0..MaxCoord
MaxWeight == 2       \* package weights in kg: 1..MaxWeight
MaxIngests == 2      \* concurrent invocations of updateDriverLocationInFirestore
MaxSamples == 3      \* location samples ingested in one behaviour
MaxCapture == 2      \* capture timestamps of the samples: 1..MaxCapture
MaxReads == 1        \* loads of the tracking page in one behaviour
MaxTime == 2         \* the clock runs from 0 to MaxTime
MaxActive == 1       \* activeDeliveries of a scored driver: 0..MaxActive

Bookings == 1..NumBookings
Drivers == 1..NumDrivers
Procs == 1..MaxHandlers
Scores == 1..MaxScore

\* null of driverId / currentBookingId
NoDriver == 0
NoBooking == 0

\* ------------------------------------------------------ status vocabulary
NoDoc == "no document"
PendingAssignment == "Pending Driver Assignment"
DriverAssigned == "Driver Assigned"
PickedUp == "Picked Up"
InTransit == "In Transit"
Delivered == "Delivered"
Cancelled == "Cancelled"

\* the values a client may put in the status field: the rules do not look at it
StatusValues ==
  {PendingAssignment, DriverAssigned, PickedUp, InTransit, Delivered, Cancelled}

\* ------------------------------------------------------------- identities
CustomerUid(b) == <<"customer", b>>
DriverUid(d) == <<"driver", d>>
Uids == {CustomerUid(b) : b \in Bookings} \cup {DriverUid(d) : d \in Drivers}

\* bookings/{id}.customerId, set at creation to the creator's uid
customerId(b) == CustomerUid(b)

VARIABLES
  status,            \* bookings/{b}.status (NoDoc while the document does not exist)
  driverId,          \* bookings/{b}.driverId
  finalizePending,   \* the onCreate event of booking b is still to be handled
  fareFinalized,     \* validateAndFinalizeBooking has written the money fields of b
  bookingData,       \* snap.data() of the onCreate event of b: the document as created
  paymentDetails,    \* bookings/{b}.paymentDetails: estimatedFare, commission, driverPayout
  distance,          \* bookings/{b}.distance
  errorLog,          \* the functions.logger.error line of the fare handler of b
  driverStatus,      \* drivers/{d}.status
  isActive,          \* drivers/{d}.isActive
  currentBookingId,  \* drivers/{d}.currentBookingId
  handlers,          \* the invocations of assignDriverToBooking
  fallbackRule,      \* the deployed rules end with the fallback of the deployment guide
  assignedDriver,    \* bookings/{b}.assignedDriver
  dropoffLocation,   \* bookings/{b}.dropoffLocation
  tracking,          \* bookings/{b}.tracking
  lastKnownLocation, \* users/{driver}.lastKnownLocation
  driverLocations,   \* the driverLocations collection, in the order of the addDoc calls
  ingests,           \* the invocations of updateDriverLocationInFirestore
  trackingSessions,  \* trackingSessions/{trackingId}
  now,               \* the clock
  reads,             \* the loads of the tracking page (initializeTracking)
  quote,             \* a call of a fare function: its arguments and what it returned
  scoring,           \* a call of calculateDriverScores: its arguments and what it returned
  linkError,         \* the error code of the last call of generateTrackingLink
  cleanup            \* the run of cleanupExpiredTrackingSessions

fareVars == <<bookingData, paymentDetails, distance, errorLog>>
bookingVars == <<status, driverId, finalizePending, fareFinalized, fareVars>>
driverVars == <<driverStatus, isActive, currentBookingId>>
locationVars == <<assignedDriver, dropoffLocation, tracking, lastKnownLocation,
                  driverLocations, ingests>>
sessionVars == <<trackingSessions, now, reads>>
\* the calls of the pure functions
callVars == <<quote, scoring, linkError, cleanup>>
\* what the dispatch core leaves alone
trackingVars == <<fallbackRule, locationVars, sessionVars>>
vars == <<status, driverId, finalizePending, fareFinalized,
          bookingData, paymentDetails, distance, errorLog,
          driverStatus, isActive, currentBookingId, handlers,
          fallbackRule, assignedDriver, dropoffLocation, tracking,
          lastKnownLocation, driverLocations, ingests,
          trackingSessions, now, reads, quote, scoring, linkError, cleanup>>


\* ------------------------------------------------------ JavaScript numbers
\* NaN, and undefined (the value of an absent field); every other number of
\* the model is a natural number
NaN == -1
Undefined == -2

IsNumber(x) == x >= 0

\* !x
Falsy(x) == x = Undefined \/ x = NaN \/ x = 0

\* a + b, a * b, a - b and Math.abs(a - b): NaN as soon as an operand is NaN
\* or undefined
Plus(a, b) == IF IsNumber(a) /\ IsNumber(b) THEN a + b ELSE NaN
Times(a, b) == IF IsNumber(a) /\ IsNumber(b) THEN a * b ELSE NaN
Minus(a, b) == IF IsNumber(a) /\ IsNumber(b) THEN a - b ELSE NaN
AbsDifference(a, b) ==
  IF IsNumber(a) /\ IsNumber(b) THEN (IF a >= b THEN a - b ELSE b - a) ELSE NaN

\* x * (num / den) for the decimal constant num/den; exact on the amounts of
\* the model, which are multiples of 50 shillings
TimesRatio(x, num, den) == IF IsNumber(x) THEN (x * num) \div den ELSE NaN

\* Math.max(a, b): NaN if either is NaN
MathMax(a, b) == IF IsNumber(a) /\ IsNumber(b) THEN (IF a >= b THEN a ELSE b) ELSE NaN

\* a > b: false when an operand is NaN
GreaterThan(a, b) == IsNumber(a) /\ IsNumber(b) /\ a > b

\* ---------------------------------------------------------------- binary64
\* Where the digits of a double matter, a finite non-negative Number is the
\* set of the exponents of its binary digits that are 1: 5.5 = 2^2 + 2^0 +
\* 2^-1 is {2, 0, -1} and 0 is {}.  Sum, Difference, Product and
\* QuotientDigits are exact; every operation of the language rounds its exact
\* result to the nearest double, ties to even.
Zero == {}
One == {0}

\* the digits of the significand
Precision == 53

MaxOf(S) == CHOOSE i \in S : \A j \in S : j <= i

MinOf(S) == CHOOSE i \in S : \A j \in S : i <= j

\* the places that pass a carry (or a borrow) on to the next: those of G, where
\* one arises, and those reached from one below through places of P alone; the
\* reach doubles with every step
RECURSIVE Carries(_, _, _)
Carries(G, P, reach) ==
  IF P = {} THEN G
  ELSE Carries(G \cup {i \in P : i - reach \in G}, {i \in P : i - reach \in P},
               2 * reach)

\* A + B: the digits without the carries, then the carries; a carry arises
\* where both have a 1 and passes through the places where one of them has
Sum(A, B) ==
  LET both == A \cap B
      one == (A \cup B) \ both
      carried == {i + 1 : i \in Carries(both, one, 1)}
  IN (one \cup carried) \ (one \cap carried)

\* A - B for A >= B: the digits without the borrows, then the borrows; a
\* borrow arises where only B has a 1 and passes through the places where A
\* has no 1 that B lacks
Difference(A, B) ==
  IF B = {} THEN A
  ELSE LET one == (A \cup B) \ (A \cap B)
           passing == {i \in MinOf(A \cup B)..MaxOf(A \cup B) : i \notin A \ B}
           borrowed == {i + 1 : i \in Carries(B \ A, passing, 1)}
       IN (one \cup borrowed) \ (one \cap borrowed)

\* A * B: A shifted by every digit of B, the digits of B taken by halves
RECURSIVE Product(_, _)
Product(A, B) ==
  IF B = {} THEN {}
  ELSE IF Cardinality(B) = 1
  THEN LET j == CHOOSE i \in B : TRUE IN {i + j : i \in A}
  ELSE LET m == CHOOSE j \in B :
                  Cardinality({i \in B : i < j}) = Cardinality(B) \div 2
       IN Sum(Product(A, {i \in B : i < m}), Product(A, {i \in B : i >= m}))

\* A < B
Less(A, B) == A # B /\ MaxOf((A \cup B) \ (A \cap B)) \in B

\* long division of R by B over the exponents e, e - 1, ..., low (e >= low):
\* the digits of the quotient and what is left of R, the range taken by halves
RECURSIVE LongDivision(_, _, _, _)
LongDivision(R, B, e, low) ==
  IF e = low
  THEN LET shifted == {i + e : i \in B}
       IN IF Less(R, shifted) THEN [digits |-> {}, rest |-> R]
          ELSE [digits |-> {e}, rest |-> Difference(R, shifted)]
  ELSE LET mid == (e + low) \div 2
           upper == LongDivision(R, B, e, mid + 1)
           lower == LongDivision(upper.rest, B, mid, low)
       IN [digits |-> upper.digits \cup lower.digits, rest |-> lower.rest]

\* the digits of R / B at the exponents e, e - 1, ..., low, and one more digit
\* below them if the division leaves a remainder
QuotientDigits(R, B, e, low) ==
  LET division == LongDivision(R, B, e, low)
  IN division.digits \cup (IF division.rest = {} THEN {} ELSE {low - 1})

\* the double nearest to an exact result, ties to even
RoundToNearest(S) ==
  IF S = {} THEN {}
  ELSE LET last == MaxOf(S) - (Precision - 1)
           kept == {i \in S : i >= last}
           half == (last - 1) \in S
           below == \E i \in S : i < last - 1
       IN IF half /\ (below \/ last \in S) THEN Sum(kept, {last}) ELSE kept

\* a + b, a - b (a >= b), a * b and a / b (b # 0)
Add(a, b) == RoundToNearest(Sum(a, b))
Subtract(a, b) == RoundToNearest(Difference(a, b))
Multiply(a, b) ==
  RoundToNearest(IF Cardinality(a) < Cardinality(b) THEN Product(b, a) ELSE Product(a, b))
Divide(a, b) ==
  IF a = {} THEN {}
  ELSE LET top == MaxOf(a) - MaxOf(b)
       IN RoundToNearest(QuotientDigits(a, b, top, top - (Precision + 2)))

\* Math.max(a, b) and a <= b
Maximum(a, b) == IF Less(a, b) THEN b ELSE a
AtMost(a, b) == ~Less(b, a)

\* Math.round(x): the nearest integer, halves up
Round(x) ==
  LET whole == {i \in x : i >= 0}
  IN IF -1 \in x THEN Sum(whole, One) ELSE whole

\* the digits of the natural number n, times 2^e
RECURSIVE Digits(_, _)
Digits(n, e) ==
  IF n = 0 THEN {}
  ELSE (IF n % 2 = 1 THEN {e} ELSE {}) \cup Digits(n \div 2, e + 1)

\* the literal of an integer, and of the decimal num/den (0.15 is 15/100)
Integer(n) == Digits(n, 0)
Decimal(num, den) == Divide(Integer(num), Integer(den))

\* ------------------------------------------------------------- fare engine
\* amounts are kept in hundredths of a shilling, so that 15% of a fare is exact
Ugx(n) == n * 100

DIRECT_DELIVERY_BASE_FARE == 3000
COLLECTION_POINT_BASE_FARE == 2000
PER_KM_RATE == 800
PER_KG_RATE == 500
FRAGILE_FEE == 1500
MINIMUM_FARE == 5000
\* 0.9 and 0.15, in percent
COLLECTION_POINT_DISCOUNT == 90
COMMISSION_RATE == 15

\* 1.0, 1.2, 1.5 and 2.0, in tenths
SIZE_MULTIPLIERS == [small |-> 10, medium |-> 12, large |-> 15, xlarge |-> 20]

\* a lookup that takes every parcel for a small one
sizeMultiplierOfSmall(sizeCategory) == SIZE_MULTIPLIERS["small"]

\* SIZE_MULTIPLIERS[sizeCategory] || 1.0
sizeMultiplier(sizeCategory) ==
  IF sizeCategory \in DOMAIN SIZE_MULTIPLIERS THEN SIZE_MULTIPLIERS[sizeCategory] ELSE 10

\* isFragile ? FRAGILE_FEE : 0
fragileFee(isFragile) == IF isFragile THEN Ugx(FRAGILE_FEE) ELSE 0

\* the four hubs, on the grid of the model
collectionPoints ==
  { [id |-> "cp1", lat |-> 1, lng |-> 2], [id |-> "cp2", lat |-> 2, lng |-> 1],
    [id |-> "cp3", lat |-> 3, lng |-> 3], [id |-> "cp4", lat |-> 4, lng |-> 1] }

\* collectionPoints.find(p => p.lat === pointId) found a hub
HubFound(pointId) == \E p \in collectionPoints : p.lat = pointId
\* the hub found
Hub(pointId) == CHOOSE p \in collectionPoints : p.lat = pointId

\* getDistance(start, end), in km.  The great-circle distance is stood for by
\* the grid distance of the integer coordinates; as in the code it is NaN as
\* soon as one of the four coordinates is undefined.
getDistance(start, end) ==
  Plus(AbsDifference(end.lat, start.lat), AbsDifference(end.lng, start.lng))

\* DIRECT_DELIVERY_BASE_FARE + distance * PER_KM_RATE
\*   + (weight * PER_KG_RATE) * sizeMultiplier + fragileFee, and likewise for
\* the collection point base fare
baseCalculation(baseFare, dist, weight, sizeCategory, isFragile) ==
  Plus(Plus(Plus(Ugx(baseFare), Times(dist, Ugx(PER_KM_RATE))),
            TimesRatio(Times(weight, Ugx(PER_KG_RATE)), sizeMultiplier(sizeCategory), 10)),
       fragileFee(isFragile))

\* commission = totalFare * COMMISSION_RATE; driverPayout = totalFare - commission
FareDetails(totalFare) ==
  LET commission == TimesRatio(totalFare, COMMISSION_RATE, 100)
  IN [totalFare |-> totalFare, commission |-> commission,
      driverPayout |-> Minus(totalFare, commission)]

calculateDirectDeliveryFare(dist, weight, sizeCategory, isFragile) ==
  FareDetails(MathMax(baseCalculation(DIRECT_DELIVERY_BASE_FARE, dist, weight,
                                      sizeCategory, isFragile),
                      Ugx(MINIMUM_FARE)))

\* Math.round(totalFare / 100) * 100: to the nearest 100 shillings, halves up
RoundToHundred(x) ==
  IF IsNumber(x) THEN ((x + Ugx(50)) \div Ugx(100)) * Ugx(100) ELSE NaN

calculateCollectionPointFare(dist, weight, sizeCategory, isFragile) ==
  FareDetails(RoundToHundred(
    TimesRatio(baseCalculation(COLLECTION_POINT_BASE_FARE, dist, weight,
                               sizeCategory, isFragile),
               COLLECTION_POINT_DISCOUNT, 100)))

\* ---------------------------------------------------- the created booking
Coordinates == 0..MaxCoord
\* a pickup or dropoff object; one that is absent has no field
Locations == [lat : Coordinates \cup {Undefined}, lng : Coordinates \cup {Undefined}]
NoLocation == [lat |-> Undefined, lng |-> Undefined]
DeliveryTypes == {"direct", "collection_point", "express"}
Weights == (1..MaxWeight) \cup {Undefined}
SizeCategories == {"small", "medium", "large", "xlarge", "huge"}
\* paymentDetails.estimatedFare as the client sent it: absent, the minimum
\* fare, and the minimum fare plus 1 and plus 2 shillings
SubmittedFares == {Undefined, Ugx(MINIMUM_FARE), Ugx(MINIMUM_FARE + 1), Ugx(MINIMUM_FARE + 2)}

BookingInputs ==
  [deliveryType : DeliveryTypes, pickup : Locations, dropoff : Locations,
   weight : Weights, size : SizeCategories, isFragile : BOOLEAN,
   estimatedFare : SubmittedFares]

NoData ==
  [deliveryType |-> "none", pickup |-> NoLocation, dropoff |-> NoLocation,
   weight |-> Undefined, size |-> "none", isFragile |-> FALSE,
   estimatedFare |-> Undefined]

NoPayment ==
  [estimatedFare |-> Undefined, commission |-> Undefined, driverPayout |-> Undefined]

\* a well-formed direct booking and one of an unknown delivery type
DirectBooking ==
  [deliveryType |-> "direct", pickup |-> [lat |-> 1, lng |-> 1],
   dropoff |-> [lat |-> 2, lng |-> 2], weight |-> 1, size |-> "small",
   isFragile |-> FALSE, estimatedFare |-> Ugx(MINIMUM_FARE)]
DispatchInputs == {DirectBooking, [DirectBooking EXCEPT !.deliveryType = "express"]}

\* ------------------------------------------------- the fare engine, in binary64
\* On the whole amounts of the bookings above every operation of the fare
\* functions is exact.  Here the same functions are computed as the language
\* computes them, on distances and weights that are any double.
sizeMultiplier64(sizeCategory) == Decimal(sizeMultiplier(sizeCategory), 10)
fragileFee64(isFragile) == IF isFragile THEN Integer(FRAGILE_FEE) ELSE Zero

baseCalculation64(baseFare, dist, weight, sizeCategory, isFragile) ==
  Add(Add(Add(Integer(baseFare), Multiply(dist, Integer(PER_KM_RATE))),
          Multiply(Multiply(weight, Integer(PER_KG_RATE)), sizeMultiplier64(sizeCategory))),
      fragileFee64(isFragile))

FareDetails64(totalFare) ==
  LET commission == Multiply(totalFare, Decimal(COMMISSION_RATE, 100))
  IN [totalFare |-> totalFare, commission |-> commission,
      driverPayout |-> Subtract(totalFare, commission)]

\* a direct fare that is not raised to the minimum fare
calculateDirectDeliveryFareNoMinimum(dist, weight, sizeCategory, isFragile) ==
  FareDetails64(baseCalculation64(DIRECT_DELIVERY_BASE_FARE, dist, weight,
                                  sizeCategory, isFragile))

calculateDirectDeliveryFare64(dist, weight, sizeCategory, isFragile) ==
  FareDetails64(Maximum(baseCalculation64(DIRECT_DELIVERY_BASE_FARE, dist, weight,
                                          sizeCategory, isFragile),
                        Integer(MINIMUM_FARE)))

\* a hub-to-hub fare that is discounted and not rounded
calculateCollectionPointFareNotRounded(dist, weight, sizeCategory, isFragile) ==
  FareDetails64(Multiply(baseCalculation64(COLLECTION_POINT_BASE_FARE, dist, weight,
                                           sizeCategory, isFragile),
                         Decimal(COLLECTION_POINT_DISCOUNT, 100)))

calculateCollectionPointFare64(dist, weight, sizeCategory, isFragile) ==
  FareDetails64(
    Multiply(Round(Divide(Multiply(baseCalculation64(COLLECTION_POINT_BASE_FARE, dist,
                                                     weight, sizeCategory, isFragile),
                                   Decimal(COLLECTION_POINT_DISCOUNT, 100)),
                          Integer(100))),
             Integer(100)))

\* the arguments of the calls: distances in metres and weights in tenths of a
\* kilogram, written as decimals of km and kg
QuoteMetres == {0, 21, 2500, 12500}
QuoteWeights == {0, 10, 50, 52}
QuoteCalls ==
  [pc : {"called"}, function : {"direct", "collection_point"},
   distance : {Decimal(m, 1000) : m \in QuoteMetres},
   weight : {Decimal(w, 10) : w \in QuoteWeights},
   sizeCategory : SizeCategories, isFragile : BOOLEAN,
   totalFare : {Zero}, commission : {Zero}, driverPayout : {Zero}]

\* ----------------------------- validateAndFinalizeBooking, up to the update
\* the functions.logger.error line of the early return the handler takes,
\* "none" if it reaches the update
FareError(data) ==
  IF data.deliveryType = "direct"
  THEN IF Falsy(data.pickup.lat) \/ Falsy(data.dropoff.lat)
       THEN "Invalid location data for direct delivery."
       ELSE "none"
  ELSE IF data.deliveryType = "collection_point"
  THEN IF ~HubFound(data.pickup.lat) \/ ~HubFound(data.dropoff.lat)
       THEN "Invalid collection point data."
       ELSE "none"
  ELSE "Invalid delivery type"

\* distance, for a booking that passed the checks
calculatedDistance(data) ==
  IF data.deliveryType = "direct"
  THEN getDistance(data.pickup, data.dropoff)
  ELSE getDistance(Hub(data.pickup.lat), Hub(data.dropoff.lat))

\* calculatedFareDetails, for a booking that passed the checks
calculatedFareDetails(data) ==
  IF data.deliveryType = "direct"
  THEN calculateDirectDeliveryFare(calculatedDistance(data), data.weight,
                                   data.size, data.isFragile)
  ELSE calculateCollectionPointFare(calculatedDistance(data), data.weight,
                                    data.size, data.isFragile)

\* fareDifference > 1: the handler logs a warning
FareMismatch(data) ==
  GreaterThan(AbsDifference(calculatedFareDetails(data).totalFare, data.estimatedFare),
              Ugx(1))

\* ---------------------------------------------------------- security rules
\* a request that carries no request.auth
Anonymous == <<"anonymous", 0>>
isAuthenticated(uid) == uid # Anonymous
\* the temporary fallback of the deployment guide, match /{document=**}:
\* allow read, write: if isAuthenticated()
FallbackAllows(uid) == fallbackRule /\ isAuthenticated(uid)

\* isOwnerOfBooking: the booking's customerId is the caller
isOwnerOfBooking(uid, b) == customerId(b) = uid

\* isAssignedDriver: the booking's driverId is the caller
isAssignedDriver(uid, b) ==
  /\ driverId[b] # NoDriver
  /\ DriverUid(driverId[b]) = uid

\* allow update on bookings/{b} for a write whose affected keys are {status}:
\* the owner (status, customerNotes) or the assigned driver (status,
\* driverNotes, currentLocation)
AllowStatusUpdate(uid, b) ==
  isOwnerOfBooking(uid, b) \/ isAssignedDriver(uid, b) \/ FallbackAllows(uid)

\* --------------------------------------------------- assignDriverToBooking
FreeHandler ==
  [pc |-> "free", bookingId |-> NoBooking, driverScores |-> <<>>,
   selected |-> NoDriver, result |-> "none"]

HandlerStates ==
  [pc : {"free", "queued", "scored", "bookingWritten", "done"},
   bookingId : Bookings \cup {NoBooking},
   driverScores : Seq([driverId : Drivers, totalScore : Scores]),
   selected : Drivers \cup {NoDriver},
   result : {"none", "noDrivers", "assigned", "error"}]

\* "Only process if status is Pending Driver Assignment": the guard reads the
\* event's own snapshot (change.after), never the stored document
ShouldProcess(afterStatus) == afterStatus = PendingAssignment

FreeSlots(h) == {p \in Procs : h[p].pc = "free"}

\* an onUpdate event of booking b whose change.after has status afterStatus:
\* an invocation that passes the guard takes a slot, any other returns null
CanDeliver(h, afterStatus) == ShouldProcess(afterStatus) => FreeSlots(h) # {}

Deliver(h, b, afterStatus) ==
  IF ShouldProcess(afterStatus)
  THEN LET p == CHOOSE q \in FreeSlots(h) : \A r \in FreeSlots(h) : q <= r
       IN [h EXCEPT ![p] = [FreeHandler EXCEPT !.pc = "queued", !.bookingId = b]]
  ELSE h

\* the query drivers where status == 'available' and isActive == true
AvailableDrivers == {d \in Drivers : driverStatus[d] = "available" /\ isActive[d]}

\* scoredDrivers.sort((a, b) => b.totalScore - a.totalScore): descending by
\* score; the sort is stable, so equal scores keep the query's order (document id)
RECURSIVE SortByTotalScore(_, _)
SortByTotalScore(S, sc) ==
  IF S = {} THEN <<>>
  ELSE LET top == CHOOSE d \in S :
                    \A e \in S : sc[d] > sc[e] \/ (sc[d] = sc[e] /\ d <= e)
       IN <<[driverId |-> top, totalScore |-> sc[top]]>>
            \o SortByTotalScore(S \ {top}, sc)

\* a selection that takes the end of the sorted list
selectedDriverLast(driverScores) == driverScores[Len(driverScores)].driverId

\* const selectedDriver = driverScores[0]
selectedDriver(driverScores) == driverScores[1].driverId

\* ------------------------------------------ updateDriverLocationInFirestore
Assigned == "Assigned"
\* where("status", "in", ["Assigned", "Picked Up", "In Transit"])
TrackedStatuses == {Assigned, PickedUp, InTransit}

Ingests == 1..MaxIngests
CaptureTimes == 1..MaxCapture

\* a position of watchPosition: position.timestamp and position.coords.  The
\* driver is at grid point (t, t) at time t, so a position delivered twice is
\* the same position.
Positions == {[timestamp |-> t, latitude |-> t, longitude |-> t] : t \in CaptureTimes}
NoPosition == [timestamp |-> 0, latitude |-> Undefined, longitude |-> Undefined]

\* bookings/{b}.dropoffLocation: absent, or the far corner of the grid
DropoffLocations == {NoLocation, [lat |-> MaxCoord, lng |-> MaxCoord]}

\* bookings/{b}.tracking: enabled, currentLocation and distance.remaining.
\* estimatedArrival is written with distance.remaining, in the same update.
\* capturedAt is position.timestamp of the position written last: the code
\* does not store it (lastUpdateTime is serverTimestamp()); it names the sample.
NoTracking ==
  [enabled |-> FALSE, currentLocation |-> NoLocation, remaining |-> Undefined,
   capturedAt |-> 0]

FreeIngest ==
  [pc |-> "free", driverId |-> NoDriver, position |-> NoPosition, bookings |-> {}]

\* calculateDistance(lat1, lon1, lat2, lon2) / 1000, in km on the grid
calculateDistance(lat1, lon1, lat2, lon2) ==
  Plus(AbsDifference(lat2, lat1), AbsDifference(lon2, lon1))

\* the query of the bookings this driver is on
assignedBookings(d) ==
  {b \in Bookings : assignedDriver[b] = d /\ status[b] \in TrackedStatuses}

\* the update of bookings/{b} issued for position pos
TrackingUpdate(b, pos) ==
  LET drop == dropoffLocation[b]
      hasDestination == ~Falsy(drop.lat) /\ ~Falsy(drop.lng)
  IN [enabled |-> TRUE,
      currentLocation |-> [lat |-> pos.latitude, lng |-> pos.longitude],
      remaining |-> IF hasDestination
                    THEN calculateDistance(pos.latitude, pos.longitude, drop.lat, drop.lng)
                    ELSE tracking[b].remaining,
      capturedAt |-> pos.timestamp]

\* the record added to driverLocations
LocationRecord(d, pos, hasAssignedBookings) ==
  [driverId |-> d,
   location |-> [lat |-> pos.latitude, lng |-> pos.longitude],
   status |-> IF hasAssignedBookings THEN "on_delivery" ELSE "active",
   capturedAt |-> pos.timestamp]

\* allow update on bookings/{b} for a write whose affected key is tracking:
\* neither the owner's keys nor the assigned driver's keys contain it
AllowTrackingUpdate(uid, b) ==
  \/ isOwnerOfBooking(uid, b) /\ "tracking" \in {"status", "customerNotes"}
  \/ isAssignedDriver(uid, b) /\ "tracking" \in {"status", "driverNotes", "currentLocation"}
  \/ FallbackAllows(uid)

\* ------------------------------------------------------- tracking sessions
MaxTokens == 1
Tokens == 1..MaxTokens
Reads == 1..MaxReads
ClockValues == 0..MaxTime

\* who opens the tracking page or asks for a link: a visitor who is not
\* signed in, the sender of booking 1 and driver 1
Visitors == {Anonymous, CustomerUid(1), DriverUid(1)}

\* new Date(Date.now() + 24 * 60 * 60 * 1000): one unit of the clock is 24 hours
SessionLifetime == 1

\* lastAccessedAt: null, until the page is opened through the link
Null == -3

NoSession ==
  [exists |-> FALSE, bookingId |-> NoBooking, expiresAt |-> 0, accessCount |-> 0,
   lastAccessedAt |-> Null]

\* afterExpiry: the page was opened strictly after the session's expiresAt
IdleRead ==
  [pc |-> "idle", trackingId |-> 0, uid |-> Anonymous, afterExpiry |-> FALSE,
   trackingSession |-> NoSession, outcome |-> "none"]

\* an expiry check that lets a link live one unit longer
IsExpiredOneLater(session, t) == session.expiresAt + 1 < t

\* trackingSession.expiresAt.toDate() < new Date()
IsExpired(session, t) == session.expiresAt < t

\* no run of cleanupExpiredTrackingSessions has started
NoCleanup == [pc |-> "idle", now |-> 0, expired |-> {}]

\* a query that also returns the sessions that expire at the time of the run
ExpiredSessionsInclusive(sessions, time) ==
  {t \in DOMAIN sessions : sessions[t].exists /\ sessions[t].expiresAt <= time}

\* collection('trackingSessions').where('expiresAt', '<', now)
ExpiredSessions(sessions, time) ==
  {t \in DOMAIN sessions : sessions[t].exists /\ sessions[t].expiresAt < time}

\* trackingSessions: allow update: if false
AllowSessionUpdate(uid) == FALSE \/ FallbackAllows(uid)

\* bookings: allow read: the owner or the assigned driver (the rule reads the
\* document, so there is one)
AllowBookingRead(uid, b) ==
  \/ /\ isAuthenticated(uid)
     /\ status[b] # NoDoc
     /\ (isOwnerOfBooking(uid, b) \/ isAssignedDriver(uid, b))
  \/ FallbackAllows(uid)

\* the invocation r has ended with this message on the page
EndRead(r, message) ==
  [IdleRead EXCEPT !.pc = "done", !.trackingId = reads[r].trackingId,
                   !.afterExpiry = reads[r].afterExpiry, !.outcome = message]

\* ------------------------------------ calculateDriverScores, in binary64
\* The five score helpers are called by calculateDriverScores and defined
\* nowhere in the repository; each is the function the scorer's description
\* gives for it.
\* the radius against which a distance is weighed, in grid steps
MAX_RADIUS == 10
\* proximity: an inverse function of the distance to the pickup, 1 at the
\* pickup and approaching 0 far beyond the radius
calculateDistanceScore(currentLocation, pickupLocation) ==
  Divide(Integer(MAX_RADIUS),
         Integer(MAX_RADIUS + getDistance(currentLocation, pickupLocation)))
\* workload: an inverse function of the active-delivery count
calculateWorkloadScore(completedDeliveries, activeDeliveries) ==
  Divide(One, Integer(1 + activeDeliveries))
\* reputation: the rating out of 5
calculateRatingScore(rating) == Divide(Integer(rating), Integer(5))
\* the load in kg a vehicle class carries
classCapacity(vehicleType) == IF vehicleType = "motorcycle" THEN 1 ELSE 4
\* vehicle fit: 0 if the class cannot carry the parcel, else the share of the
\* capacity the parcel uses
calculateVehicleScore(vehicleType, parcelDetails) ==
  IF parcelDetails.weightKg > classCapacity(vehicleType) THEN Zero
  ELSE Divide(Integer(parcelDetails.weightKg), Integer(classCapacity(vehicleType)))
\* availability: 1 within the declared working hours, else a decayed value
calculateAvailabilityScore(workingHours) ==
  IF workingHours THEN One ELSE Decimal(1, 2)

\* the documents the drivers query returns, as far as the scorer reads them;
\* workingHours stands for "the declared hours cover the present moment"
VehicleTypes == {"motorcycle", "truck"}
DriverDocs ==
  [id : Drivers, currentLocation : {[lat |-> c, lng |-> c] : c \in Coordinates},
   completedDeliveries : {128}, activeDeliveries : 0..MaxActive, rating : {5},
   vehicleType : VehicleTypes, workingHours : BOOLEAN]
\* the booking of the update, as far as the scorer reads it
ScoredBookings ==
  {[pickupLocation |-> [lat |-> 0, lng |-> 0],
    dropoffLocation |-> [lat |-> MaxCoord, lng |-> MaxCoord],
    parcelDetails |-> [weightKg |-> w]] : w \in 1..MaxWeight}

\* the weights of the total score: 0.4, 0.2, 0.15, 0.15 and 0.1
DISTANCE_WEIGHT == Decimal(4, 10)
WORKLOAD_WEIGHT == Decimal(2, 10)
RATING_WEIGHT == Decimal(15, 100)
VEHICLE_WEIGHT == Decimal(15, 100)
AVAILABILITY_WEIGHT == Decimal(1, 10)

\* what drivers.map computes for one driver, measuring to the dropoff
ScoredDriverToDropoff(driver, booking) ==
  LET distanceScore == calculateDistanceScore(driver.currentLocation, booking.dropoffLocation)
      workloadScore == calculateWorkloadScore(driver.completedDeliveries, driver.activeDeliveries)
      ratingScore == calculateRatingScore(driver.rating)
      vehicleScore == calculateVehicleScore(driver.vehicleType, booking.parcelDetails)
      availabilityScore == calculateAvailabilityScore(driver.workingHours)
  IN [driverId |-> driver.id,
      totalScore |->
        Add(Add(Add(Add(Multiply(distanceScore, DISTANCE_WEIGHT),
                        Multiply(workloadScore, WORKLOAD_WEIGHT)),
                    Multiply(ratingScore, RATING_WEIGHT)),
                Multiply(vehicleScore, VEHICLE_WEIGHT)),
            Multiply(availabilityScore, AVAILABILITY_WEIGHT)),
      distanceScore |-> distanceScore, workloadScore |-> workloadScore,
      ratingScore |-> ratingScore, vehicleScore |-> vehicleScore,
      availabilityScore |-> availabilityScore]

\* what drivers.map computes for one driver: the five sub-scores and
\* totalScore = (distanceScore * 0.4) + (workloadScore * 0.2)
\*   + (ratingScore * 0.15) + (vehicleScore * 0.15) + (availabilityScore * 0.1)
ScoredDriver(driver, booking) ==
  LET distanceScore == calculateDistanceScore(driver.currentLocation, booking.pickupLocation)
      workloadScore == calculateWorkloadScore(driver.completedDeliveries, driver.activeDeliveries)
      ratingScore == calculateRatingScore(driver.rating)
      vehicleScore == calculateVehicleScore(driver.vehicleType, booking.parcelDetails)
      availabilityScore == calculateAvailabilityScore(driver.workingHours)
  IN [driverId |-> driver.id,
      totalScore |->
        Add(Add(Add(Add(Multiply(distanceScore, DISTANCE_WEIGHT),
                        Multiply(workloadScore, WORKLOAD_WEIGHT)),
                    Multiply(ratingScore, RATING_WEIGHT)),
                Multiply(vehicleScore, VEHICLE_WEIGHT)),
            Multiply(availabilityScore, AVAILABILITY_WEIGHT)),
      distanceScore |-> distanceScore, workloadScore |-> workloadScore,
      ratingScore |-> ratingScore, vehicleScore |-> vehicleScore,
      availabilityScore |-> availabilityScore]

\* scoredDrivers.sort((a, b) => b.totalScore - a.totalScore): the sort is
\* stable, so x goes behind every element whose totalScore is not lower
RECURSIVE InsertByTotalScore(_, _)
InsertByTotalScore(x, sorted) ==
  IF sorted = <<>> THEN <<x>>
  ELSE IF Less(Head(sorted).totalScore, x.totalScore) THEN <<x>> \o sorted
  ELSE <<Head(sorted)>> \o InsertByTotalScore(x, Tail(sorted))

RECURSIVE SortFirst(_, _)
SortFirst(scoredDrivers, n) ==
  IF n = 0 THEN <<>>
  ELSE InsertByTotalScore(scoredDrivers[n], SortFirst(scoredDrivers, n - 1))

calculateDriverScores(drivers, booking) ==
  SortFirst([i \in 1..Len(drivers) |-> ScoredDriver(drivers[i], booking)], Len(drivers))

\* the calls of assignDriverToBooking: a non-empty result of the drivers
\* query, one or two documents of distinct drivers in either order, and the
\* booking of the update
CandidateLists ==
  {<<d>> : d \in DriverDocs}
    \cup {pair \in DriverDocs \X DriverDocs : pair[1].id # pair[2].id}
ScoringCalls ==
  [pc : {"called"}, drivers : CandidateLists, booking : ScoredBookings,
   driverScores : {<<>>}, selectedDriver : {NoDriver}]

\* ------------------------------------------------- calls of pure functions
NoQuote ==
  [pc |-> "idle", function |-> "none", distance |-> Zero, weight |-> Zero,
   sizeCategory |-> "none", isFragile |-> FALSE,
   totalFare |-> Zero, commission |-> Zero, driverPayout |-> Zero]
NoScoring ==
  [pc |-> "idle", drivers |-> <<>>,
   booking |-> [pickupLocation |-> NoLocation, dropoffLocation |-> NoLocation,
                parcelDetails |-> [weightKg |-> Undefined]],
   driverScores |-> <<>>, selectedDriver |-> NoDriver]

\* ------------------------------------------------------------------- Init
\* no booking has been created
NoBookings ==
  /\ status = [b \in Bookings |-> NoDoc]
  /\ driverId = [b \in Bookings |-> NoDriver]
  /\ finalizePending = [b \in Bookings |-> FALSE]
  /\ fareFinalized = [b \in Bookings |-> FALSE]
  /\ bookingData = [b \in Bookings |-> NoData]
  /\ paymentDetails = [b \in Bookings |-> NoPayment]
  /\ distance = [b \in Bookings |-> Undefined]
  /\ errorLog = [b \in Bookings |-> "none"]

\* no position has been ingested
NoLocations ==
  /\ tracking = [b \in Bookings |-> NoTracking]
  /\ lastKnownLocation = [d \in Drivers |-> NoLocation]
  /\ driverLocations = <<>>
  /\ ingests = [i \in Ingests |-> FreeIngest]

\* no tracking link has been generated or opened
NoSessions ==
  /\ trackingSessions = [t \in Tokens |-> NoSession]
  /\ now = 0
  /\ reads = [r \in Reads |-> IdleRead]

\* no pure function has been called
NoCalls ==
  /\ quote = NoQuote
  /\ scoring = NoScoring
  /\ linkError = "none"
  /\ cleanup = NoCleanup

\* the dispatch core under the rules of the security-rules document, which
\* end with "Default deny all"
Init ==
  /\ NoBookings
  /\ driverStatus \in [Drivers -> {"available", "offline"}]
  /\ isActive \in [Drivers -> BOOLEAN]
  /\ currentBookingId = [d \in Drivers |-> NoBooking]
  /\ handlers = [p \in Procs |-> FreeHandler]
  /\ fallbackRule = FALSE
  /\ assignedDriver = [b \in Bookings |-> NoDriver]
  /\ dropoffLocation = [b \in Bookings |-> NoLocation]
  /\ NoLocations
  /\ NoSessions
  /\ NoCalls

\* ---------------------------------------------------------- client writes
\* allow create: a sender creates its booking; new bookings are marked
\* "Pending Driver Assignment"; the creation fires the onCreate fare handler
\* with the fields of data and the money block the client sent (one submitted
\* amount stands in each of its three fields)
CreateBooking(b, data) ==
  /\ status[b] = NoDoc
  /\ status' = [status EXCEPT ![b] = PendingAssignment]
  /\ finalizePending' = [finalizePending EXCEPT ![b] = TRUE]
  /\ bookingData' = [bookingData EXCEPT ![b] = data]
  /\ paymentDetails' = [paymentDetails EXCEPT ![b] =
                          [estimatedFare |-> data.estimatedFare,
                           commission |-> data.estimatedFare,
                           driverPayout |-> data.estimatedFare]]
  /\ UNCHANGED <<driverId, fareFinalized, distance, errorLog, driverVars, handlers,
                 trackingVars, callVars>>

\* a client write of the status field, admitted by allow update; it fires onUpdate
ClientUpdateStatus(uid, b, s) ==
  /\ status[b] # NoDoc
  /\ AllowStatusUpdate(uid, b)
  /\ CanDeliver(handlers, s)
  /\ status' = [status EXCEPT ![b] = s]
  /\ handlers' = Deliver(handlers, b, s)
  /\ UNCHANGED <<driverId, finalizePending, fareFinalized, fareVars, driverVars,
                 trackingVars, callVars>>

\* -------------------------------------------- validateAndFinalizeBooking
\* a handler that trusts a submitted fare within the tolerance: it writes the
\* money fields only on a mismatch
FinalizeBookingOnMismatch(b) ==
  /\ finalizePending[b]
  /\ FareError(bookingData[b]) = "none"
  /\ CanDeliver(handlers, status[b])
  /\ finalizePending' = [finalizePending EXCEPT ![b] = FALSE]
  /\ fareFinalized' = [fareFinalized EXCEPT ![b] = TRUE]
  /\ LET details == calculatedFareDetails(bookingData[b])
     IN paymentDetails' =
          IF FareMismatch(bookingData[b])
          THEN [paymentDetails EXCEPT ![b] =
                  [estimatedFare |-> details.totalFare,
                   commission |-> details.commission,
                   driverPayout |-> details.driverPayout]]
          ELSE paymentDetails
  /\ distance' = [distance EXCEPT ![b] = calculatedDistance(bookingData[b])]
  /\ handlers' = Deliver(handlers, b, status[b])
  /\ UNCHANGED <<status, driverId, bookingData, errorLog, driverVars, trackingVars, callVars>>

\* no early return is taken: a fare mismatch is logged as a warning, then
\* snap.ref.update writes the calculated money fields and the distance, which
\* fires onUpdate with the document as it then is
FinalizeBooking(b) ==
  /\ finalizePending[b]
  /\ FareError(bookingData[b]) = "none"
  /\ CanDeliver(handlers, status[b])
  /\ finalizePending' = [finalizePending EXCEPT ![b] = FALSE]
  /\ fareFinalized' = [fareFinalized EXCEPT ![b] = TRUE]
  /\ LET details == calculatedFareDetails(bookingData[b])
     IN paymentDetails' = [paymentDetails EXCEPT ![b] =
                             [estimatedFare |-> details.totalFare,
                              commission |-> details.commission,
                              driverPayout |-> details.driverPayout]]
  /\ distance' = [distance EXCEPT ![b] = calculatedDistance(bookingData[b])]
  /\ handlers' = Deliver(handlers, b, status[b])
  /\ UNCHANGED <<status, driverId, bookingData, errorLog, driverVars, trackingVars, callVars>>

\* a handler that voids the submitted money block of a booking it rejects
RejectBookingVoidingFare(b) ==
  /\ finalizePending[b]
  /\ FareError(bookingData[b]) # "none"
  /\ finalizePending' = [finalizePending EXCEPT ![b] = FALSE]
  /\ errorLog' = [errorLog EXCEPT ![b] = FareError(bookingData[b])]
  /\ paymentDetails' = [paymentDetails EXCEPT ![b] = NoPayment]
  /\ UNCHANGED <<status, driverId, fareFinalized, bookingData,
                 distance, driverVars, handlers, trackingVars, callVars>>

\* invalid location data, collection point or delivery type: logged, no write
RejectBooking(b) ==
  /\ finalizePending[b]
  /\ FareError(bookingData[b]) # "none"
  /\ finalizePending' = [finalizePending EXCEPT ![b] = FALSE]
  /\ errorLog' = [errorLog EXCEPT ![b] = FareError(bookingData[b])]
  /\ UNCHANGED <<status, driverId, fareFinalized, bookingData, paymentDetails,
                 distance, driverVars, handlers, trackingVars, callVars>>

\* --------------------------------------- assignDriverToBooking, by segment
\* the drivers query returned documents: score, sort, select
QueryDrivers(p) ==
  /\ handlers[p].pc = "queued"
  /\ AvailableDrivers # {}
  /\ \E sc \in [AvailableDrivers -> Scores] :
       handlers' = [handlers EXCEPT ![p].pc = "scored",
                      ![p].driverScores = SortByTotalScore(AvailableDrivers, sc)]
  /\ UNCHANGED <<bookingVars, driverVars, trackingVars, callVars>>

\* availableDriversSnapshot.empty: "No available drivers found", return null
NoDriversFound(p) ==
  /\ handlers[p].pc = "queued"
  /\ AvailableDrivers = {}
  /\ handlers' = [handlers EXCEPT ![p].pc = "done", ![p].result = "noDrivers"]
  /\ UNCHANGED <<bookingVars, driverVars, trackingVars, callVars>>

\* bookings/{bookingId}.update({driverId, driverName, status: "Driver Assigned"});
\* the onUpdate event it fires does not pass the guard.  Of driverScores only
\* selectedDriver is read after this point.
WriteBooking(p) ==
  /\ handlers[p].pc = "scored"
  /\ LET b == handlers[p].bookingId
         d == selectedDriver(handlers[p].driverScores)
     IN /\ status' = [status EXCEPT ![b] = DriverAssigned]
        /\ driverId' = [driverId EXCEPT ![b] = d]
        /\ handlers' = Deliver([handlers EXCEPT ![p].pc = "bookingWritten",
                                                ![p].selected = d,
                                                ![p].driverScores = <<>>],
                               b, DriverAssigned)
  /\ UNCHANGED <<finalizePending, fareFinalized, fareVars, driverVars, trackingVars, callVars>>

\* the booking update throws: catch, log, return null
WriteBookingFails(p) ==
  /\ handlers[p].pc = "scored"
  /\ handlers' = [handlers EXCEPT ![p].pc = "done", ![p].result = "error",
                                  ![p].driverScores = <<>>]
  /\ UNCHANGED <<bookingVars, driverVars, trackingVars, callVars>>

\* drivers/{driverId}.update({status: 'assigned', currentBookingId}), then the
\* notification and return null
WriteDriver(p) ==
  /\ handlers[p].pc = "bookingWritten"
  /\ LET d == handlers[p].selected
     IN /\ driverStatus' = [driverStatus EXCEPT ![d] = "assigned"]
        /\ currentBookingId' = [currentBookingId EXCEPT ![d] = handlers[p].bookingId]
  /\ handlers' = [handlers EXCEPT ![p].pc = "done", ![p].result = "assigned"]
  /\ UNCHANGED <<bookingVars, isActive, trackingVars, callVars>>

\* the driver update throws after the booking update was applied
WriteDriverFails(p) ==
  /\ handlers[p].pc = "bookingWritten"
  /\ handlers' = [handlers EXCEPT ![p].pc = "done", ![p].result = "error"]
  /\ UNCHANGED <<bookingVars, driverVars, trackingVars, callVars>>

\* the invocation has returned
HandlerReturn(p) ==
  /\ handlers[p].pc = "done"
  /\ handlers' = [handlers EXCEPT ![p] = FreeHandler]
  /\ UNCHANGED <<bookingVars, driverVars, trackingVars, callVars>>

\* at-least-once delivery: the event of invocation p is delivered once more
Redeliver(p) ==
  /\ handlers[p].pc # "free"
  /\ FreeSlots(handlers) # {}
  /\ handlers' = Deliver(handlers, handlers[p].bookingId, PendingAssignment)
  /\ UNCHANGED <<bookingVars, driverVars, trackingVars, callVars>>

\* ------------------------------ updateDriverLocationInFirestore, by segment
\* positions whose ingestion has begun and not yet failed
SamplesBegun ==
  Len(driverLocations)
    + Cardinality({i \in Ingests : ingests[i].pc \in {"queried", "userWritten"}})

\* watchPosition hands a position to the function, which is not awaited: the
\* query of the driver's bookings returns
StartIngest(i, d, pos) ==
  /\ ingests[i].pc = "free"
  /\ \A j \in Ingests : ingests[j].pc = "free" => i <= j
  /\ SamplesBegun < MaxSamples
  /\ ingests' = [ingests EXCEPT ![i] =
                   [pc |-> "queried", driverId |-> d, position |-> pos,
                    bookings |-> assignedBookings(d)]]
  /\ UNCHANGED <<bookingVars, driverVars, handlers, fallbackRule, assignedDriver,
                 dropoffLocation, tracking, lastKnownLocation, driverLocations,
                 sessionVars, callVars>>

\* updateDoc(users/{driver}, {lastKnownLocation, ...})
WriteLastKnownLocation(i) ==
  /\ ingests[i].pc = "queried"
  /\ lastKnownLocation' =
       [lastKnownLocation EXCEPT ![ingests[i].driverId] =
          [lat |-> ingests[i].position.latitude, lng |-> ingests[i].position.longitude]]
  /\ ingests' = [ingests EXCEPT ![i].pc = "userWritten"]
  /\ UNCHANGED <<bookingVars, driverVars, handlers, fallbackRule, assignedDriver,
                 dropoffLocation, tracking, driverLocations, sessionVars, callVars>>

\* the invocation ends: its updates of the bookings are all settled
AfterTracking(ing) == IF ing.bookings = {} THEN FreeIngest ELSE ing

\* an ingestion that keeps a stale position out of the history: the record is
\* added only if the position is newer than the driver's last record
AddDriverLocationIfNewer(i) ==
  /\ ingests[i].pc = "userWritten"
  /\ LET mine == SelectSeq(driverLocations,
                           LAMBDA rec : rec.driverId = ingests[i].driverId)
         stale == mine # <<>> /\ mine[Len(mine)].capturedAt > ingests[i].position.timestamp
     IN driverLocations' =
          IF stale THEN driverLocations
          ELSE Append(driverLocations,
                      LocationRecord(ingests[i].driverId, ingests[i].position,
                                     ingests[i].bookings # {}))
  /\ ingests' = [ingests EXCEPT ![i] = AfterTracking([ingests[i] EXCEPT !.pc = "tracking"])]
  /\ UNCHANGED <<bookingVars, driverVars, handlers, fallbackRule, assignedDriver,
                 dropoffLocation, tracking, lastKnownLocation, sessionVars, callVars>>

\* addDoc(collection(db, "driverLocations"), {...}), then the forEach that
\* issues one update per booking of the query and does not wait for them
AddDriverLocation(i) ==
  /\ ingests[i].pc = "userWritten"
  /\ driverLocations' =
       Append(driverLocations,
              LocationRecord(ingests[i].driverId, ingests[i].position,
                             ingests[i].bookings # {}))
  /\ ingests' = [ingests EXCEPT ![i] = AfterTracking([ingests[i] EXCEPT !.pc = "tracking"])]
  /\ UNCHANGED <<bookingVars, driverVars, handlers, fallbackRule, assignedDriver,
                 dropoffLocation, tracking, lastKnownLocation, sessionVars, callVars>>

\* the update of the user document or the addDoc throws: catch, show the error
IngestWriteFails(i) ==
  /\ ingests[i].pc \in {"queried", "userWritten"}
  /\ ingests' = [ingests EXCEPT ![i] = FreeIngest]
  /\ UNCHANGED <<bookingVars, driverVars, handlers, fallbackRule, assignedDriver,
                 dropoffLocation, tracking, lastKnownLocation, driverLocations,
                 sessionVars, callVars>>

\* updateDoc(bookings/{b}, {"tracking.enabled": true, "tracking.currentLocation", ...})
\* of invocation i is applied
WriteTracking(i, b) ==
  /\ ingests[i].pc = "tracking"
  /\ b \in ingests[i].bookings
  /\ AllowTrackingUpdate(DriverUid(ingests[i].driverId), b)
  /\ tracking' = [tracking EXCEPT ![b] = TrackingUpdate(b, ingests[i].position)]
  /\ ingests' = [ingests EXCEPT ![i] =
                   AfterTracking([ingests[i] EXCEPT !.bookings = @ \ {b}])]
  /\ UNCHANGED <<bookingVars, driverVars, handlers, fallbackRule, assignedDriver,
                 dropoffLocation, lastKnownLocation, driverLocations, sessionVars, callVars>>

\* the rules deny the update: the promise of the callback rejects
WriteTrackingDenied(i, b) ==
  /\ ingests[i].pc = "tracking"
  /\ b \in ingests[i].bookings
  /\ ~AllowTrackingUpdate(DriverUid(ingests[i].driverId), b)
  /\ ingests' = [ingests EXCEPT ![i] =
                   AfterTracking([ingests[i] EXCEPT !.bookings = @ \ {b}])]
  /\ UNCHANGED <<bookingVars, driverVars, handlers, fallbackRule, assignedDriver,
                 dropoffLocation, tracking, lastKnownLocation, driverLocations,
                 sessionVars, callVars>>

\* ------------------------------------------------------ generateTrackingLink
\* the caller is signed in and is the booking's customer or assigned driver
\* (no administrator is among the callers)
MayGenerateLink(uid, b) ==
  /\ isAuthenticated(uid)
  /\ status[b] # NoDoc
  /\ \/ customerId(b) = uid
     \/ assignedDriver[b] # NoDriver /\ DriverUid(assignedDriver[b]) = uid

\* catch (error): whatever was thrown inside the try block leaves the function
\* as HttpsError('internal', `Failed to generate tracking link: ...`)
Rethrown(code) == "internal"

\* the code of the HttpsError the call ends with: the check of context.auth
\* comes before the try block, the checks of the booking are inside it
LinkError(uid, b) ==
  IF ~isAuthenticated(uid) THEN "unauthenticated"
  ELSE IF status[b] = NoDoc THEN Rethrown("not-found")
  ELSE IF ~MayGenerateLink(uid, b) THEN Rethrown("permission-denied")
  ELSE "none"

\* the call passes every check: the session is created with accessCount 0 and
\* expiresAt 24 hours from now, the booking is marked and the link is returned
GenerateTrackingLink(uid, b, t) ==
  /\ LinkError(uid, b) = "none"
  /\ ~trackingSessions[t].exists
  /\ \A u \in Tokens : ~trackingSessions[u].exists => t <= u
  /\ trackingSessions' = [trackingSessions EXCEPT ![t] =
                            [exists |-> TRUE, bookingId |-> b,
                             expiresAt |-> now + SessionLifetime, accessCount |-> 0,
                             lastAccessedAt |-> Null]]
  /\ tracking' = [tracking EXCEPT ![b].enabled = TRUE]
  /\ linkError' = "none"
  /\ UNCHANGED <<bookingVars, driverVars, handlers, fallbackRule, assignedDriver,
                 dropoffLocation, lastKnownLocation, driverLocations, ingests,
                 now, reads, quote, scoring, cleanup>>

\* the call throws before anything is written
GenerateTrackingLinkFails(uid, b) ==
  /\ LinkError(uid, b) # "none"
  /\ linkError' = LinkError(uid, b)
  /\ UNCHANGED <<bookingVars, driverVars, handlers, trackingVars, quote, scoring, cleanup>>

\* -------------------------------------- cleanupExpiredTrackingSessions
\* the schedule starts a run: now = Timestamp.now() and the query returns; with
\* an empty snapshot the run logs and returns
StartCleanup ==
  /\ cleanup.pc # "queried"
  /\ LET expired == ExpiredSessions(trackingSessions, now)
     IN cleanup' = [pc |-> IF expired = {} THEN "empty" ELSE "queried",
                    now |-> now, expired |-> expired]
  /\ UNCHANGED <<bookingVars, driverVars, handlers, trackingVars, quote, scoring, linkError>>

\* batch.commit(): the documents of the snapshot are deleted in one write
CommitCleanup ==
  /\ cleanup.pc = "queried"
  /\ trackingSessions' =
       [t \in Tokens |-> IF t \in cleanup.expired THEN NoSession ELSE trackingSessions[t]]
  /\ cleanup' = [cleanup EXCEPT !.pc = "committed"]
  /\ UNCHANGED <<bookingVars, driverVars, handlers, fallbackRule, locationVars,
                 now, reads, quote, scoring, linkError>>

\* the commit throws: catch, log, return null
CleanupFails ==
  /\ cleanup.pc = "queried"
  /\ cleanup' = [cleanup EXCEPT !.pc = "failed"]
  /\ UNCHANGED <<bookingVars, driverVars, handlers, trackingVars, quote, scoring, linkError>>

\* time passes
Tick ==
  /\ now < MaxTime
  /\ now' = now + 1
  /\ UNCHANGED <<bookingVars, driverVars, handlers, fallbackRule, locationVars,
                 trackingSessions, reads, callVars>>

\* allow delete on bookings: an administrator deletes the document
DeleteBooking(b) ==
  /\ status[b] # NoDoc
  /\ status' = [status EXCEPT ![b] = NoDoc]
  /\ tracking' = [tracking EXCEPT ![b] = NoTracking]
  /\ UNCHANGED <<driverId, finalizePending, fareFinalized, fareVars, driverVars,
                 handlers, fallbackRule, assignedDriver, dropoffLocation,
                 lastKnownLocation, driverLocations, ingests, sessionVars, callVars>>

\* -------------------------------------------- initializeTracking, by segment
\* the page is opened with ?id=t: getDoc(trackingSessions/{t}) (allow read: if
\* true) returns the session, or nothing: "Tracking session not found"
LoadPage(r, uid, t) ==
  /\ reads[r].pc = "idle"
  /\ \A q \in Reads : reads[q].pc = "idle" => r <= q
  /\ reads' = [reads EXCEPT ![r] =
                 IF trackingSessions[t].exists
                 THEN [pc |-> "gotSession", trackingId |-> t, uid |-> uid,
                       afterExpiry |-> trackingSessions[t].expiresAt < now,
                       trackingSession |-> trackingSessions[t],
                       outcome |-> "none"]
                 ELSE [IdleRead EXCEPT !.pc = "done", !.trackingId = t,
                                       !.outcome = "not found"]]
  /\ UNCHANGED <<bookingVars, driverVars, handlers, fallbackRule, locationVars,
                 trackingSessions, now, callVars>>

\* a page that also switches the booking's link off as it counts the access
CountAccessOnBooking(r) ==
  /\ reads[r].pc = "gotSession"
  /\ AllowSessionUpdate(reads[r].uid)
  /\ trackingSessions' =
       [trackingSessions EXCEPT ![reads[r].trackingId].accessCount =
          reads[r].trackingSession.accessCount + 1,
                                ![reads[r].trackingId].lastAccessedAt = now]
  /\ tracking' = [tracking EXCEPT ![reads[r].trackingSession.bookingId].enabled = FALSE]
  /\ reads' = [reads EXCEPT ![r] =
                 IF IsExpired(reads[r].trackingSession, now)
                 THEN EndRead(r, "expired")
                 ELSE [reads[r] EXCEPT !.pc = "checked"]]
  /\ UNCHANGED <<bookingVars, driverVars, handlers, fallbackRule, assignedDriver,
                 dropoffLocation, lastKnownLocation, driverLocations, ingests,
                 now, callVars>>

\* updateDoc(trackingSessionRef, {accessCount: (trackingSession.accessCount || 0) + 1,
\* lastAccessedAt: new Date()}), then the expiry check on the session as it was read
CountAccess(r) ==
  /\ reads[r].pc = "gotSession"
  /\ AllowSessionUpdate(reads[r].uid)
  /\ trackingSessions' =
       [trackingSessions EXCEPT ![reads[r].trackingId].accessCount =
          reads[r].trackingSession.accessCount + 1,
                                ![reads[r].trackingId].lastAccessedAt = now]
  /\ reads' = [reads EXCEPT ![r] =
                 IF IsExpired(reads[r].trackingSession, now)
                 THEN EndRead(r, "expired")
                 ELSE [reads[r] EXCEPT !.pc = "checked"]]
  /\ UNCHANGED <<bookingVars, driverVars, handlers, fallbackRule, locationVars, now, callVars>>

\* the rules deny the update: catch, "Failed to load tracking information"
CountAccessDenied(r) ==
  /\ reads[r].pc = "gotSession"
  /\ ~AllowSessionUpdate(reads[r].uid)
  /\ reads' = [reads EXCEPT ![r] = EndRead(r, "failed")]
  /\ UNCHANGED <<bookingVars, driverVars, handlers, fallbackRule, locationVars,
                 trackingSessions, now, callVars>>

\* getDoc(bookings/{bookingId}) returns the booking: the map, displayBookingInfo
\* and the listener
ReadBooking(r) ==
  /\ reads[r].pc = "checked"
  /\ AllowBookingRead(reads[r].uid, reads[r].trackingSession.bookingId)
  /\ status[reads[r].trackingSession.bookingId] # NoDoc
  /\ reads' = [reads EXCEPT ![r] = EndRead(r, "displayed")]
  /\ UNCHANGED <<bookingVars, driverVars, handlers, fallbackRule, locationVars,
                 trackingSessions, now, callVars>>

\* the booking is gone ("Delivery information not found") or the rules deny
\* the read (catch)
ReadBookingFails(r) ==
  /\ reads[r].pc = "checked"
  /\ LET b == reads[r].trackingSession.bookingId
     IN /\ ~AllowBookingRead(reads[r].uid, b) \/ status[b] = NoDoc
        /\ reads' = [reads EXCEPT ![r] =
                       EndRead(r, IF AllowBookingRead(reads[r].uid, b)
                                  THEN "booking not found" ELSE "failed")]
  /\ UNCHANGED <<bookingVars, driverVars, handlers, fallbackRule, locationVars,
                 trackingSessions, now, callVars>>

\* calculateDriverScores returns and selectedDriver = driverScores[0] is taken
SelectDriver ==
  /\ scoring.pc = "called"
  /\ LET driverScores == calculateDriverScores(scoring.drivers, scoring.booking)
     IN scoring' = [scoring EXCEPT !.pc = "selected",
                                   !.driverScores = driverScores,
                                   !.selectedDriver = driverScores[1].driverId]
  /\ UNCHANGED <<bookingVars, driverVars, handlers, trackingVars, quote, linkError, cleanup>>

\* ------------------------------------------------ calls of the fare functions
\* the function returns { totalFare, commission, driverPayout }
ReturnQuote ==
  /\ quote.pc = "called"
  /\ LET details ==
           IF quote.function = "direct"
           THEN calculateDirectDeliveryFare64(quote.distance, quote.weight,
                                              quote.sizeCategory, quote.isFragile)
           ELSE calculateCollectionPointFare64(quote.distance, quote.weight,
                                               quote.sizeCategory, quote.isFragile)
     IN quote' = [quote EXCEPT !.pc = "returned",
                               !.totalFare = details.totalFare,
                               !.commission = details.commission,
                               !.driverPayout = details.driverPayout]
  /\ UNCHANGED <<bookingVars, driverVars, handlers, trackingVars, scoring, linkError, cleanup>>

\* ------------------------------------------------------------------- Next
Next ==
  \/ \E b \in Bookings, data \in BookingInputs : CreateBooking(b, data)
  \/ \E uid \in Uids, b \in Bookings, s \in StatusValues : ClientUpdateStatus(uid, b, s)
  \/ \E b \in Bookings : FinalizeBooking(b)
  \/ \E b \in Bookings : RejectBooking(b)
  \/ \E p \in Procs : QueryDrivers(p)
  \/ \E p \in Procs : NoDriversFound(p)
  \/ \E p \in Procs : WriteBooking(p)
  \/ \E p \in Procs : WriteBookingFails(p)
  \/ \E p \in Procs : WriteDriver(p)
  \/ \E p \in Procs : WriteDriverFails(p)
  \/ \E p \in Procs : HandlerReturn(p)
  \/ \E p \in Procs : Redeliver(p)
  \/ \E i \in Ingests, d \in Drivers, pos \in Positions : StartIngest(i, d, pos)
  \/ \E i \in Ingests : WriteLastKnownLocation(i)
  \/ \E i \in Ingests : AddDriverLocation(i)
  \/ \E i \in Ingests : IngestWriteFails(i)
  \/ \E i \in Ingests, b \in Bookings : WriteTracking(i, b)
  \/ \E i \in Ingests, b \in Bookings : WriteTrackingDenied(i, b)
  \/ \E uid \in Visitors, b \in Bookings, t \in Tokens : GenerateTrackingLink(uid, b, t)
  \/ \E uid \in Visitors, b \in Bookings : GenerateTrackingLinkFails(uid, b)
  \/ Tick
  \/ \E b \in Bookings : DeleteBooking(b)
  \/ \E r \in Reads, uid \in Visitors, t \in Tokens : LoadPage(r, uid, t)
  \/ \E r \in Reads : CountAccess(r)
  \/ \E r \in Reads : CountAccessDenied(r)
  \/ \E r \in Reads : ReadBooking(r)
  \/ \E r \in Reads : ReadBookingFails(r)
  \/ ReturnQuote
  \/ SelectDriver
  \/ StartCleanup
  \/ CommitCleanup
  \/ CleanupFails

Spec == Init /\ [][Next]_vars

\* the assignment pipeline alone: creation, fare finalization and the
\* assignment handler under at-least-once delivery, with no client status write
NextAssign ==
  \/ \E b \in Bookings, data \in DispatchInputs : CreateBooking(b, data)
  \/ \E b \in Bookings : FinalizeBooking(b)
  \/ \E b \in Bookings : RejectBooking(b)
  \/ \E p \in Procs : QueryDrivers(p)
  \/ \E p \in Procs : NoDriversFound(p)
  \/ \E p \in Procs : WriteBooking(p)
  \/ \E p \in Procs : WriteBookingFails(p)
  \/ \E p \in Procs : WriteDriver(p)
  \/ \E p \in Procs : WriteDriverFails(p)
  \/ \E p \in Procs : HandlerReturn(p)
  \/ \E p \in Procs : Redeliver(p)

SpecAssign == Init /\ [][NextAssign]_vars

\* the assignment pipeline with every write succeeding: what remains is the
\* interleaving of concurrent and repeated invocations
NextCommit ==
  \/ \E b \in Bookings, data \in DispatchInputs : CreateBooking(b, data)
  \/ \E b \in Bookings : FinalizeBooking(b)
  \/ \E b \in Bookings : RejectBooking(b)
  \/ \E p \in Procs : QueryDrivers(p)
  \/ \E p \in Procs : NoDriversFound(p)
  \/ \E p \in Procs : WriteBooking(p)
  \/ \E p \in Procs : WriteDriver(p)
  \/ \E p \in Procs : HandlerReturn(p)
  \/ \E p \in Procs : Redeliver(p)

SpecCommit == Init /\ [][NextCommit]_vars

\* the booking state machine: client status writes and the assignment handler
\* with every event delivered once and every write succeeding
NextStatus ==
  \/ \E b \in Bookings : CreateBooking(b, DirectBooking)
  \/ \E uid \in Uids, b \in Bookings, s \in StatusValues : ClientUpdateStatus(uid, b, s)
  \/ \E p \in Procs : QueryDrivers(p)
  \/ \E p \in Procs : NoDriversFound(p)
  \/ \E p \in Procs : WriteBooking(p)
  \/ \E p \in Procs : WriteDriver(p)
  \/ \E p \in Procs : HandlerReturn(p)

SpecStatus == Init /\ [][NextStatus]_vars

\* the whole dispatch pipeline of one booking: its creation, the fare handler,
\* the status writes of the clients and the assignment handler, every event
\* delivered once and every write succeeding
NextDispatch ==
  \/ \E data \in DispatchInputs : CreateBooking(1, data)
  \/ \E uid \in Uids, s \in StatusValues : ClientUpdateStatus(uid, 1, s)
  \/ FinalizeBooking(1)
  \/ RejectBooking(1)
  \/ \E p \in Procs : QueryDrivers(p)
  \/ \E p \in Procs : NoDriversFound(p)
  \/ \E p \in Procs : WriteBooking(p)
  \/ \E p \in Procs : WriteDriver(p)
  \/ \E p \in Procs : HandlerReturn(p)

SpecDispatch == Init /\ [][NextDispatch]_vars

\* the life of one booking from its creation to its end: the drivers are on
\* duty or not, the booking is created and priced, a driver is assigned and the
\* clients move the booking on; no client puts it back to pending
InitRelease ==
  /\ NoBookings
  /\ driverStatus \in [Drivers -> {"available", "offline"}]
  /\ isActive = [d \in Drivers |-> TRUE]
  /\ currentBookingId = [d \in Drivers |-> NoBooking]
  /\ handlers = [p \in Procs |-> FreeHandler]
  /\ fallbackRule = FALSE
  /\ assignedDriver = [b \in Bookings |-> NoDriver]
  /\ dropoffLocation = [b \in Bookings |-> NoLocation]
  /\ NoLocations
  /\ NoSessions
  /\ NoCalls

\* a step of an invocation of a handler
HandlerStep ==
  \/ FinalizeBooking(1)
  \/ RejectBooking(1)
  \/ \E p \in Procs : QueryDrivers(p)
  \/ \E p \in Procs : NoDriversFound(p)
  \/ \E p \in Procs : WriteBooking(p)
  \/ \E p \in Procs : WriteDriver(p)
  \/ \E p \in Procs : HandlerReturn(p)

NextRelease ==
  \/ \E data \in DispatchInputs : CreateBooking(1, data)
  \/ \E uid \in Uids, s \in StatusValues \ {PendingAssignment} :
       ClientUpdateStatus(uid, 1, s)
  \/ HandlerStep

\* the handlers run to their end: while a step of some invocation is possible,
\* a step of an invocation is taken
SpecRelease == InitRelease /\ [][NextRelease]_vars /\ WF_vars(HandlerStep)

\* the fare handler alone, on every booking a client can create.  The handler
\* reads and writes only the booking of its event, so one booking is followed.
InitFare ==
  /\ NoBookings
  /\ driverStatus = [d \in Drivers |-> "offline"]
  /\ isActive = [d \in Drivers |-> FALSE]
  /\ currentBookingId = [d \in Drivers |-> NoBooking]
  /\ handlers = [p \in Procs |-> FreeHandler]
  /\ fallbackRule = FALSE
  /\ assignedDriver = [b \in Bookings |-> NoDriver]
  /\ dropoffLocation = [b \in Bookings |-> NoLocation]
  /\ NoLocations
  /\ NoSessions
  /\ NoCalls

NextFare ==
  \/ status[1] = NoDoc /\ \E data \in BookingInputs : CreateBooking(1, data)
  \/ FinalizeBooking(1)
  \/ RejectBooking(1)

SpecFare == InitFare /\ [][NextFare]_vars

\* the fare handler on the bookings of several senders: the same parcel sent
\* directly, between hubs or by an unknown delivery type, over no distance or
\* over two grid steps, with every submitted fare
PairInputs ==
  {[DirectBooking EXCEPT !.deliveryType = t, !.dropoff = [lat |-> c, lng |-> c],
                         !.estimatedFare = f] :
     t \in DeliveryTypes, c \in {1, 2}, f \in SubmittedFares}

NextFarePair ==
  \/ \E b \in Bookings : status[b] = NoDoc /\ \E data \in PairInputs : CreateBooking(b, data)
  \/ \E b \in Bookings : FinalizeBooking(b)
  \/ \E b \in Bookings : RejectBooking(b)

SpecFarePair == InitFare /\ [][NextFarePair]_vars

\* the fare functions alone, called on every combination of the arguments
InitQuote ==
  /\ NoBookings
  /\ driverStatus = [d \in Drivers |-> "offline"]
  /\ isActive = [d \in Drivers |-> FALSE]
  /\ currentBookingId = [d \in Drivers |-> NoBooking]
  /\ handlers = [p \in Procs |-> FreeHandler]
  /\ fallbackRule = FALSE
  /\ assignedDriver = [b \in Bookings |-> NoDriver]
  /\ dropoffLocation = [b \in Bookings |-> NoLocation]
  /\ NoLocations
  /\ NoSessions
  /\ quote \in QuoteCalls
  /\ scoring = NoScoring
  /\ linkError = "none"
  /\ cleanup = NoCleanup

NextQuote == ReturnQuote

SpecQuote == InitQuote /\ [][NextQuote]_vars

\* the scorer alone, called on every result of the drivers query
InitScore ==
  /\ NoBookings
  /\ driverStatus = [d \in Drivers |-> "available"]
  /\ isActive = [d \in Drivers |-> TRUE]
  /\ currentBookingId = [d \in Drivers |-> NoBooking]
  /\ handlers = [p \in Procs |-> FreeHandler]
  /\ fallbackRule = FALSE
  /\ assignedDriver = [b \in Bookings |-> NoDriver]
  /\ dropoffLocation = [b \in Bookings |-> NoLocation]
  /\ NoLocations
  /\ NoSessions
  /\ quote = NoQuote
  /\ scoring \in ScoringCalls
  /\ linkError = "none"
  /\ cleanup = NoCleanup

NextScore == SelectDriver

SpecScore == InitScore /\ [][NextScore]_vars

\* location ingestion: the bookings exist, each with the driver it was given
\* to, and the driver clients ingest positions, in any order and overlapping
InitLocation ==
  /\ status \in [Bookings -> {Assigned, Delivered}]
  /\ driverId = [b \in Bookings |-> NoDriver]
  /\ finalizePending = [b \in Bookings |-> FALSE]
  /\ fareFinalized = [b \in Bookings |-> FALSE]
  /\ bookingData = [b \in Bookings |-> NoData]
  /\ paymentDetails = [b \in Bookings |-> NoPayment]
  /\ distance = [b \in Bookings |-> Undefined]
  /\ errorLog = [b \in Bookings |-> "none"]
  /\ driverStatus = [d \in Drivers |-> "assigned"]
  /\ isActive = [d \in Drivers |-> TRUE]
  /\ currentBookingId = [d \in Drivers |-> NoBooking]
  /\ handlers = [p \in Procs |-> FreeHandler]
  /\ fallbackRule \in BOOLEAN
  /\ assignedDriver \in [Bookings -> Drivers]
  /\ dropoffLocation \in [Bookings -> DropoffLocations]
  /\ NoLocations
  /\ NoSessions
  /\ NoCalls

NextLocation ==
  \/ \E i \in Ingests, d \in Drivers, pos \in Positions : StartIngest(i, d, pos)
  \/ \E i \in Ingests : WriteLastKnownLocation(i)
  \/ \E i \in Ingests : AddDriverLocation(i)
  \/ \E i \in Ingests : IngestWriteFails(i)
  \/ \E i \in Ingests, b \in Bookings : WriteTracking(i, b)
  \/ \E i \in Ingests, b \in Bookings : WriteTrackingDenied(i, b)

SpecLocation == InitLocation /\ [][NextLocation]_vars

\* dispatch and tracking together: booking 1 is created, priced and given to a
\* driver by assignDriverToBooking, the other bookings are marked "Assigned"
\* to driver 1 as the ingestion reads them, and the driver clients ingest positions
InitFeed ==
  /\ status = [b \in Bookings |-> IF b = 1 THEN NoDoc ELSE Assigned]
  /\ driverId = [b \in Bookings |-> NoDriver]
  /\ finalizePending = [b \in Bookings |-> FALSE]
  /\ fareFinalized = [b \in Bookings |-> FALSE]
  /\ bookingData = [b \in Bookings |-> NoData]
  /\ paymentDetails = [b \in Bookings |-> NoPayment]
  /\ distance = [b \in Bookings |-> Undefined]
  /\ errorLog = [b \in Bookings |-> "none"]
  /\ driverStatus = [d \in Drivers |-> "available"]
  /\ isActive = [d \in Drivers |-> TRUE]
  /\ currentBookingId = [d \in Drivers |-> NoBooking]
  /\ handlers = [p \in Procs |-> FreeHandler]
  /\ fallbackRule \in BOOLEAN
  /\ assignedDriver = [b \in Bookings |-> IF b = 1 THEN NoDriver ELSE 1]
  /\ dropoffLocation = [b \in Bookings |-> [lat |-> MaxCoord, lng |-> MaxCoord]]
  /\ NoLocations
  /\ NoSessions
  /\ NoCalls

NextFeed ==
  \/ CreateBooking(1, DirectBooking)
  \/ FinalizeBooking(1)
  \/ \E p \in Procs : QueryDrivers(p)
  \/ \E p \in Procs : WriteBooking(p)
  \/ \E p \in Procs : WriteDriver(p)
  \/ \E p \in Procs : HandlerReturn(p)
  \/ \E i \in Ingests, d \in Drivers, pos \in Positions : StartIngest(i, d, pos)
  \/ \E i \in Ingests : WriteLastKnownLocation(i)
  \/ \E i \in Ingests : AddDriverLocation(i)
  \/ \E i \in Ingests, b \in Bookings : WriteTracking(i, b)
  \/ \E i \in Ingests, b \in Bookings : WriteTrackingDenied(i, b)

SpecFeed == InitFeed /\ [][NextFeed]_vars

\* ingestion while deliveries end: every booking is on its way with driver 1,
\* the clients ingest positions and the parties of a booking write Delivered
\* or Cancelled to it
InitHandover ==
  /\ status = [b \in Bookings |-> Assigned]
  /\ driverId = [b \in Bookings |-> NoDriver]
  /\ finalizePending = [b \in Bookings |-> FALSE]
  /\ fareFinalized = [b \in Bookings |-> FALSE]
  /\ bookingData = [b \in Bookings |-> NoData]
  /\ paymentDetails = [b \in Bookings |-> NoPayment]
  /\ distance = [b \in Bookings |-> Undefined]
  /\ errorLog = [b \in Bookings |-> "none"]
  /\ driverStatus = [d \in Drivers |-> "assigned"]
  /\ isActive = [d \in Drivers |-> TRUE]
  /\ currentBookingId = [d \in Drivers |-> NoBooking]
  /\ handlers = [p \in Procs |-> FreeHandler]
  /\ fallbackRule \in BOOLEAN
  /\ assignedDriver = [b \in Bookings |-> 1]
  /\ dropoffLocation = [b \in Bookings |-> [lat |-> MaxCoord, lng |-> MaxCoord]]
  /\ NoLocations
  /\ NoSessions
  /\ NoCalls

NextHandover ==
  \/ \E uid \in Uids, b \in Bookings, s \in {Delivered, Cancelled} :
       ClientUpdateStatus(uid, b, s)
  \/ \E i \in Ingests, d \in Drivers, pos \in Positions : StartIngest(i, d, pos)
  \/ \E i \in Ingests : WriteLastKnownLocation(i)
  \/ \E i \in Ingests : AddDriverLocation(i)
  \/ \E i \in Ingests, b \in Bookings : WriteTracking(i, b)
  \/ \E i \in Ingests, b \in Bookings : WriteTrackingDenied(i, b)

SpecHandover == InitHandover /\ [][NextHandover]_vars

\* the tracking page: the bookings exist, links are generated and opened while
\* time passes
InitTracking ==
  /\ status = [b \in Bookings |-> InTransit]
  /\ driverId = [b \in Bookings |-> NoDriver]
  /\ finalizePending = [b \in Bookings |-> FALSE]
  /\ fareFinalized = [b \in Bookings |-> FALSE]
  /\ bookingData = [b \in Bookings |-> NoData]
  /\ paymentDetails = [b \in Bookings |-> NoPayment]
  /\ distance = [b \in Bookings |-> Undefined]
  /\ errorLog = [b \in Bookings |-> "none"]
  /\ driverStatus = [d \in Drivers |-> "assigned"]
  /\ isActive = [d \in Drivers |-> TRUE]
  /\ currentBookingId = [d \in Drivers |-> NoBooking]
  /\ handlers = [p \in Procs |-> FreeHandler]
  /\ fallbackRule \in BOOLEAN
  /\ assignedDriver = [b \in Bookings |-> 1]
  /\ dropoffLocation = [b \in Bookings |-> NoLocation]
  /\ NoLocations
  /\ NoSessions
  /\ NoCalls

NextTracking ==
  \/ \E uid \in Visitors, b \in Bookings, t \in Tokens : GenerateTrackingLink(uid, b, t)
  \/ Tick
  \/ \E b \in Bookings : DeleteBooking(b)
  \/ \E r \in Reads, uid \in Visitors, t \in Tokens : LoadPage(r, uid, t)
  \/ \E r \in Reads : CountAccess(r)
  \/ \E r \in Reads : CountAccessDenied(r)
  \/ \E r \in Reads : ReadBooking(r)
  \/ \E r \in Reads : ReadBookingFails(r)

SpecTracking == InitTracking /\ [][NextTracking]_vars

\* the calls of generateTrackingLink: links are asked for by the visitors,
\* for bookings that exist and for bookings an administrator has deleted
NextLink ==
  \/ \E uid \in Visitors, b \in Bookings, t \in Tokens : GenerateTrackingLink(uid, b, t)
  \/ \E uid \in Visitors, b \in Bookings : GenerateTrackingLinkFails(uid, b)
  \/ Tick
  \/ \E b \in Bookings : DeleteBooking(b)

SpecLink == InitTracking /\ [][NextLink]_vars

\* the scheduled cleanup: links are generated while time passes and the
\* cleanup runs at any time
NextCleanup ==
  \/ \E uid \in Visitors, b \in Bookings, t \in Tokens : GenerateTrackingLink(uid, b, t)
  \/ Tick
  \/ StartCleanup
  \/ CommitCleanup
  \/ CleanupFails

SpecCleanup == InitTracking /\ [][NextCleanup]_vars

TypeOK ==
  /\ status \in [Bookings -> StatusValues \cup {NoDoc, Assigned}]
  /\ driverId \in [Bookings -> Drivers \cup {NoDriver}]
  /\ driverStatus \in [Drivers -> {"available", "assigned", "offline"}]
  /\ currentBookingId \in [Drivers -> Bookings \cup {NoBooking}]
  /\ finalizePending \in [Bookings -> BOOLEAN]
  /\ fareFinalized \in [Bookings -> BOOLEAN]
  /\ isActive \in [Drivers -> BOOLEAN]
  /\ \A p \in Procs : handlers[p] \in HandlerStates
  /\ \A p \in Procs : handlers[p].pc = "scored" <=> handlers[p].driverScores # <<>>
  /\ \A p \in Procs : handlers[p].pc = "free" <=> handlers[p].bookingId = NoBooking
  /\ bookingData \in [Bookings -> BookingInputs \cup {NoData}]
  /\ \A b \in Bookings :
       /\ \A f \in {"estimatedFare", "commission", "driverPayout"} :
            paymentDetails[b][f] \in Nat \cup {NaN, Undefined}
       /\ distance[b] \in Nat \cup {NaN, Undefined}
       /\ tracking[b].enabled \in BOOLEAN
       /\ tracking[b].capturedAt \in CaptureTimes \cup {0}
  /\ fallbackRule \in BOOLEAN
  /\ assignedDriver \in [Bookings -> Drivers \cup {NoDriver}]
  /\ dropoffLocation \in [Bookings -> DropoffLocations]
  /\ lastKnownLocation \in [Drivers -> Locations \cup {[lat |-> t, lng |-> t] : t \in CaptureTimes}]
  /\ Len(driverLocations) <= MaxSamples
  /\ \A i \in Ingests :
       /\ ingests[i].pc \in {"free", "queried", "userWritten", "tracking"}
       /\ ingests[i].bookings \subseteq Bookings
       /\ ingests[i].pc = "tracking" => ingests[i].bookings # {}
  /\ \A t \in Tokens : trackingSessions[t].accessCount \in 0..MaxReads
  /\ now \in ClockValues
  /\ \A r \in Reads :
       /\ reads[r].pc \in {"idle", "gotSession", "checked", "done"}
       /\ reads[r].outcome \in
            {"none", "not found", "expired", "failed", "booking not found", "displayed"}


\* ================================================================= claims
\* the status of the design that the handler never writes
AssignmentFailed == "Assignment Failed"

\* a booking that holds its driver: assigned and not yet delivered or cancelled
IsActiveBooking(b) == status[b] \in {DriverAssigned, PickedUp, InTransit}

\* the position of a status in Pending < Assigned < Picked Up < In Transit <
\* Delivered; Cancelled is terminal and stands after all of them
Rank(s) ==
  CASE s = NoDoc -> 0
    [] s = PendingAssignment -> 1
    [] s = DriverAssigned -> 2
    [] s = PickedUp -> 3
    [] s = InTransit -> 4
    [] s = Delivered -> 5
    [] OTHER -> 6

\* the transitions of the booking state machine
LegalTransition(from, to) ==
  \/ from = NoDoc /\ to = PendingAssignment
  \/ from = PendingAssignment /\ to = DriverAssigned
  \/ from = DriverAssigned /\ to = PickedUp
  \/ from = PickedUp /\ to = InTransit
  \/ from = InTransit /\ to = Delivered
  \/ from \notin {NoDoc, Delivered, Cancelled} /\ to = Cancelled

\* the drivers a query can ever have returned: no operation makes a driver
\* available or active, so this is the set of drivers eligible at the start
EligibleAtStart == {d \in Drivers : isActive[d] /\ driverStatus[d] # "offline"}

\* C1: double-booking exclusion: no driver is the assigned driver of more than
\* one active booking at the same time.
C1_NoDoubleBooking ==
  \A d \in Drivers :
    Cardinality({b \in Bookings : IsActiveBooking(b) /\ driverId[b] = d}) <= 1

\* C2: the assignment commit is all-or-nothing: a booking is Assigned with
\* driver d exactly when driver d is 'assigned' with currentBookingId the booking.
C2_CommitAllOrNothing ==
  \A b \in Bookings, d \in Drivers :
    (status[b] = DriverAssigned /\ driverId[b] = d)
      <=> (driverStatus[d] = "assigned" /\ currentBookingId[d] = b)

\* C3: with exactly one driver eligible, two pending bookings never both end
\* Assigned to that driver.
C3_SingleDriverContention ==
  Cardinality(EligibleAtStart) = 1 =>
    \A b1, b2 \in Bookings :
      (b1 # b2 /\ status[b1] = DriverAssigned /\ status[b2] = DriverAssigned)
        => driverId[b1] # driverId[b2]

\* C4: a booking's status never regresses in the order Pending < Assigned <
\* Picked Up < In Transit < Delivered, except by the transition to Cancelled.
C4_StatusNeverRegresses ==
  [][\A b \in Bookings :
       status'[b] # Cancelled => Rank(status'[b]) >= Rank(status[b])]_vars

\* C5: Delivered and Cancelled are terminal: once reached, the status never
\* changes again.
C5_TerminalStatuses ==
  [][\A b \in Bookings :
       status[b] \in {Delivered, Cancelled} => status'[b] = status[b]]_vars

\* C6: an out-of-order transition is rejected: every change of a booking's
\* status is a transition of the state machine.
C6_OnlyLegalTransitions ==
  [][\A b \in Bookings :
       status'[b] # status[b] => LegalTransition(status[b], status'[b])]_vars

\* C7: transition authority: Pending -> Assigned happens only as the
\* coordinator's booking write, and Assigned -> Picked Up -> In Transit ->
\* Delivered only as a status write of the booking's assigned driver.
C7_TransitionAuthority ==
  [][\A b \in Bookings :
       /\ (status[b] = PendingAssignment /\ status'[b] = DriverAssigned)
            => \E p \in Procs : handlers[p].bookingId = b /\ WriteBooking(p)
       /\ (/\ status[b] \in {DriverAssigned, PickedUp, InTransit}
           /\ status'[b] \in {PickedUp, InTransit, Delivered}
           /\ Rank(status'[b]) = Rank(status[b]) + 1)
            => (/\ driverId[b] # NoDriver
                /\ ClientUpdateStatus(DriverUid(driverId[b]), b, status'[b]))]_vars

\* C8: an assignment pass that finds no available, active driver leaves the
\* booking in AssignmentFailed and modifies no driver record.
C8_NoDriverEndsFailed ==
  [][\A p \in Procs :
       NoDriversFound(p) =>
         /\ status'[handlers[p].bookingId] = AssignmentFailed
         /\ UNCHANGED driverVars]_vars

\* the ranked candidates of invocation p that are still available
StillAvailable(p) ==
  SelectSeq(handlers[p].driverScores, LAMBDA c : c.driverId \in AvailableDrivers)

\* C9: a pass commits its best candidate that no concurrent assignment has
\* claimed, and ends without an assignment only when no ranked candidate is left.
C9_RetryNextCandidate ==
  [][\A p \in Procs :
       handlers[p].pc = "scored" =>
         /\ handlers'[p].pc = "bookingWritten" =>
              /\ StillAvailable(p) # <<>>
              /\ driverId'[handlers[p].bookingId] = StillAvailable(p)[1].driverId
         /\ handlers'[p].pc = "done" => StillAvailable(p) = <<>>]_vars

\* C10: the handler is idempotent under at-least-once delivery: however often
\* a booking's event is delivered, at most one driver record has
\* currentBookingId set to the booking, and it is the booking's driver.
C10_IdempotentDelivery ==
  \A b \in Bookings :
    /\ Cardinality({d \in Drivers : currentBookingId[d] = b}) <= 1
    /\ \A d \in Drivers : currentBookingId[d] = b => driverId[b] = d

\* the live projection of a booking: its current location and remaining distance
Projection(t) == <<t.currentLocation, t.remaining>>

\* C11: a location sample whose capture timestamp is older than that of the
\* sample last applied to a booking never changes the booking's live
\* projection (current location, remaining distance), in whatever order the
\* samples arrive and their writes complete.
C11_StaleSampleNeverApplied ==
  [][\A b \in Bookings :
       Projection(tracking'[b]) # Projection(tracking[b])
         => tracking'[b].capturedAt >= tracking[b].capturedAt]_vars

\* the position of invocation i has been ingested before, to the end: the
\* history holds it twice (once for i itself) and no other invocation that
\* carries it is still running
IngestedBefore(i) ==
  LET same(rec) == /\ rec.driverId = ingests[i].driverId
                   /\ rec.capturedAt = ingests[i].position.timestamp
  IN /\ Len(SelectSeq(driverLocations, same)) >= 2
     /\ \A j \in Ingests \ {i} :
          \/ ingests[j].pc = "free"
          \/ ingests[j].driverId # ingests[i].driverId
          \/ ingests[j].position # ingests[i].position

\* C12: ingestion is idempotent on replays: ingesting again a sample of the
\* same driver and capture timestamp, at any later time and also after newer
\* samples were applied, leaves the booking's projection unchanged.
C12_ReplayIdempotent ==
  [][\A i \in Ingests, b \in Bookings :
       (IngestedBefore(i) /\ WriteTracking(i, b))
         => Projection(tracking'[b]) = Projection(tracking[b])]_vars

\* the history holds a record of driver d's position captured at t
Recorded(d, t) ==
  \E k \in 1..Len(driverLocations) :
    driverLocations[k].driverId = d /\ driverLocations[k].capturedAt = t

\* C13: the location history is append-only: every ingested sample, a stale
\* or out-of-order one included, adds exactly one record (an invocation gets
\* past the history write only by appending the record of its position, and
\* every position applied to a booking is in the history), and no step
\* modifies or removes an existing record.
C13_HistoryAppendOnly ==
  /\ [](/\ \A i \in Ingests :
            ingests[i].pc = "tracking"
              => Recorded(ingests[i].driverId, ingests[i].position.timestamp)
         /\ \A b \in Bookings :
            tracking[b].capturedAt # 0 => Recorded(assignedDriver[b], tracking[b].capturedAt))
  /\ [][/\ driverLocations' # driverLocations
            => /\ Len(driverLocations') = Len(driverLocations) + 1
               /\ SubSeq(driverLocations', 1, Len(driverLocations)) = driverLocations
         /\ \A i \in Ingests :
              (ingests[i].pc = "userWritten" /\ ingests'[i].pc # "userWritten"
                 /\ ~IngestWriteFails(i))
                => /\ Len(driverLocations') = Len(driverLocations) + 1
                   /\ driverLocations'[Len(driverLocations')] =
                        LocationRecord(ingests[i].driverId, ingests[i].position,
                                       ingests[i].bookings # {})]_vars

\* a stale position is in the history, behind a newer one of the same driver
C13_StaleSampleRecorded ==
  \E k, l \in 1..Len(driverLocations) :
    /\ k < l
    /\ driverLocations[k].driverId = driverLocations[l].driverId
    /\ driverLocations[l].capturedAt < driverLocations[k].capturedAt

\* C14: a tracking token is rejected on every read attempted strictly after
\* its expiry: a load of the page that began after the session's expiresAt
\* never displays the booking.
C14_ExpiredTokenRejected ==
  \A r \in Reads : reads[r].outcome = "displayed" => ~reads[r].afterExpiry

\* a load that began after the expiry was rejected as expired
C14_ExpiredReadRejected ==
  \E r \in Reads :
    /\ reads[r].outcome = "expired"
    /\ reads[r].afterExpiry

\* the loads of the page with token t that displayed the booking
SuccessfulReads(t) ==
  {r \in Reads : reads[r].trackingId = t /\ reads[r].outcome = "displayed"}

\* C15: the access counter of a session increments exactly once per
\* successful read: once every load has ended, accessCount is the number of
\* loads that displayed the booking (rejected loads do not count, concurrent
\* successful loads each count).
C15_AccessCountIsSuccessfulReads ==
  (\A r \in Reads : reads[r].pc \in {"idle", "done"})
    => \A t \in Tokens :
         trackingSessions[t].exists
           => trackingSessions[t].accessCount = Cardinality(SuccessfulReads(t))

\* C16: any holder of an existing, unexpired token reads the booking without
\* authentication or ownership: a load through such a token whose booking
\* exists never fails.
C16_TokenHolderReads ==
  [][\A r \in Reads :
       (reads[r].pc \in {"gotSession", "checked"} /\ reads'[r].outcome = "failed")
         => \/ IsExpired(reads[r].trackingSession, now)
            \/ status[reads[r].trackingSession.bookingId] = NoDoc]_vars

\* the fare handler of booking b has run to its end
Handled(b) == bookingData[b] # NoData /\ ~finalizePending[b]

\* the money block the fare engine computes for the booking as created
ComputedPayment(data) ==
  LET details == calculatedFareDetails(data)
  IN [estimatedFare |-> details.totalFare, commission |-> details.commission,
      driverPayout |-> details.driverPayout]

\* the money block as the client sent it
SubmittedPayment(data) ==
  [estimatedFare |-> data.estimatedFare, commission |-> data.estimatedFare,
   driverPayout |-> data.estimatedFare]

\* C17: once validateAndFinalizeBooking has completed successfully, the
\* booking's stored fare, commission and driver payout are the values the
\* server computed, whatever the client submitted.
C17_ServerFareAuthoritative ==
  \A b \in Bookings :
    fareFinalized[b] => paymentDetails[b] = ComputedPayment(bookingData[b])

\* a finalized booking whose money block is not the one the client submitted
C17_SubmittedFareOverwritten ==
  \E b \in Bookings :
    /\ fareFinalized[b]
    /\ IsNumber(bookingData[b].estimatedFare)
    /\ paymentDetails[b].estimatedFare # bookingData[b].estimatedFare

\* the geometry of the booking is there: all four coordinates of a direct
\* booking, two known hubs of a hub-based one
ValidGeometry(data) ==
  \/ /\ data.deliveryType = "direct"
     /\ \A c \in {data.pickup.lat, data.pickup.lng, data.dropoff.lat, data.dropoff.lng} :
          IsNumber(c)
  \/ /\ data.deliveryType = "collection_point"
     /\ HubFound(data.pickup.lat) /\ HubFound(data.dropoff.lat)

\* C18: a fare mismatch is never a hard failure: a booking with valid
\* geometry is finalized with the computed money fields for every submitted
\* fare, one that differs by more than the tolerance included.
C18_MismatchNeverFatal ==
  \A b \in Bookings :
    (Handled(b) /\ ValidGeometry(bookingData[b]))
      => /\ fareFinalized[b]
         /\ paymentDetails[b] = ComputedPayment(bookingData[b])

\* a direct booking lacks a latitude or a longitude of its pickup or dropoff,
\* or a hub-based booking names a hub that is not known
MissingGeometry(data) ==
  \/ /\ data.deliveryType = "direct"
     /\ \E c \in {data.pickup.lat, data.pickup.lng, data.dropoff.lat, data.dropoff.lng} :
          c = Undefined
  \/ /\ data.deliveryType = "collection_point"
     /\ ~HubFound(data.pickup.lat) \/ ~HubFound(data.dropoff.lat)

\* the handler has written nothing to booking b
NothingWritten(b) ==
  /\ ~fareFinalized[b]
  /\ paymentDetails[b] = SubmittedPayment(bookingData[b])
  /\ distance[b] = Undefined

\* C19: missing or invalid geometry is a hard failure: for a direct booking
\* that lacks a pickup or dropoff latitude or longitude, or a hub-based
\* booking whose hub cannot be resolved, the handler writes nothing and
\* records an error.
C19_MissingGeometryFails ==
  \A b \in Bookings :
    (Handled(b) /\ MissingGeometry(bookingData[b]))
      => NothingWritten(b) /\ errorLog[b] # "none"

\* the weight is missing or not a number, or the size class is not one of
\* small, medium, large, xlarge
MalformedPackage(data) ==
  ~IsNumber(data.weight) \/ data.size \notin DOMAIN SIZE_MULTIPLIERS

\* C20: malformed package attributes are an input-validation failure: the
\* booking is left unfinalized and no money field is written.
C20_MalformedPackageFails ==
  \A b \in Bookings :
    (Handled(b) /\ MalformedPackage(bookingData[b])) => NothingWritten(b)

\* C21: fare precedes assignment: a booking is given a driver (the
\* coordinator's write to Assigned) only after the fare engine has written its
\* money fields; a booking whose fare validation failed never gets a driver,
\* whatever update of the booking triggers the assignment handler.
C21_FarePrecedesAssignment ==
  \A b \in Bookings :
    driverId[b] # NoDriver => fareFinalized[b] /\ errorLog[b] = "none"

\* the call of the fare function has returned
Returned(function) == quote.pc = "returned" /\ quote.function = function

\* C22: for all valid direct-delivery inputs (distance >= 0, weight >= 0, any
\* size class, any fragile flag) the fare calculateDirectDeliveryFare returns
\* is at least the minimum fare.
C22_DirectFareAtLeastMinimum ==
  Returned("direct") => AtMost(Integer(MINIMUM_FARE), quote.totalFare)

\* a direct fare whose sum of base, distance, weight and fragile parts is
\* below the minimum fare was raised to it
C22_MinimumFareApplied ==
  /\ Returned("direct")
  /\ Less(baseCalculation64(DIRECT_DELIVERY_BASE_FARE, quote.distance, quote.weight,
                            quote.sizeCategory, quote.isFragile),
          Integer(MINIMUM_FARE))
  /\ quote.totalFare = Integer(MINIMUM_FARE)

\* C23: for every fare the two fare functions compute, commission +
\* driverPayout equals totalFare exactly, with commission = totalFare * 0.15
\* and driverPayout = totalFare - commission.
C23_CommissionPlusPayoutIsFare ==
  quote.pc = "returned" =>
    /\ quote.commission = Multiply(quote.totalFare, Decimal(15, 100))
    /\ quote.driverPayout = Subtract(quote.totalFare, quote.commission)
    /\ Add(quote.commission, quote.driverPayout) = quote.totalFare

\* x = k * unit for an integer k
IsMultipleOf(x, unit) == Product(Round(Divide(x, unit)), unit) = x

\* C24: for all hub-to-hub inputs the fare calculateCollectionPointFare
\* returns is a multiple of 100 currency units.
C24_HubFareMultipleOfHundred ==
  Returned("collection_point") => IsMultipleOf(quote.totalFare, Integer(100))

\* a hub-to-hub fare whose discounted amount is not a multiple of 100 and was
\* rounded to one
C24_HubFareWasRounded ==
  /\ Returned("collection_point")
  /\ ~IsMultipleOf(calculateCollectionPointFareNotRounded(
                     quote.distance, quote.weight, quote.sizeCategory,
                     quote.isFragile).totalFare,
                   Integer(100))
  /\ IsMultipleOf(quote.totalFare, Integer(100))

\* the multiplier table of the fare formula: 1.0, 1.2, 1.5 and 2.0
TableValue(sizeClass) ==
  CASE sizeClass = "small" -> Decimal(10, 10)
    [] sizeClass = "medium" -> Decimal(12, 10)
    [] sizeClass = "large" -> Decimal(15, 10)
    [] sizeClass = "xlarge" -> Decimal(20, 10)

\* C26: for every direct-delivery input, calculateDirectDeliveryFare returns
\* fare = max(3000 + distance*800 + weight*500*size_multiplier + fragile_fee,
\* 5000), with size_multiplier the table value of the size class and
\* fragile_fee 1500 when fragile and 0 otherwise.
C26_DirectFareFormula ==
  (Returned("direct") /\ quote.sizeCategory \in {"small", "medium", "large", "xlarge"})
    => quote.totalFare =
         Maximum(Add(Add(Add(Integer(3000), Multiply(quote.distance, Integer(800))),
                         Multiply(Multiply(quote.weight, Integer(500)),
                                  TableValue(quote.sizeCategory))),
                     IF quote.isFragile THEN Integer(1500) ELSE Zero),
                 Integer(5000))

\* the scenario of 12.5 km, 5.2 kg, size medium, fragile: 3000 + 10000 + 3120
\* + 1500
C26_ScenarioFare ==
  /\ Returned("direct")
  /\ quote.distance = Decimal(12500, 1000) /\ quote.weight = Decimal(52, 10)
  /\ quote.sizeCategory = "medium" /\ quote.isFragile
  /\ quote.totalFare = Integer(17620)

\* the inputs of the fare engine: delivery kind, coordinates, weight, size
\* class and fragile flag, that is every field but the submitted fare
EngineInputs(data) == [data EXCEPT !.estimatedFare = Undefined]

ScoreOf(i) ==
  LET k == CHOOSE k \in 1..Len(scoring.driverScores) :
             scoring.driverScores[k].driverId = scoring.drivers[i].id
  IN scoring.driverScores[k]

\* the distance of the i-th driver of the query result to the pickup point
DistanceToPickup(i) ==
  getDistance(scoring.drivers[i].currentLocation, scoring.booking.pickupLocation)

\* two driver documents that differ in nothing but the driver and its position
DifferOnlyInPosition(d, e) ==
  [d EXCEPT !.id = NoDriver, !.currentLocation = NoLocation]
    = [e EXCEPT !.id = NoDriver, !.currentLocation = NoLocation]

\* C27: of two candidate drivers that differ only in their distance to the
\* pickup point, the closer one receives a strictly higher proximity sub-score.
C27_CloserScoresHigher ==
  scoring.pc = "selected" =>
    \A i, j \in 1..Len(scoring.drivers) :
      (/\ DifferOnlyInPosition(scoring.drivers[i], scoring.drivers[j])
       /\ DistanceToPickup(i) < DistanceToPickup(j))
        => Less(ScoreOf(j).distanceScore, ScoreOf(i).distanceScore)

\* two scored drivers that differ only in position, one closer to the pickup
C27_TwoDistancesScored ==
  /\ scoring.pc = "selected"
  /\ \E i, j \in 1..Len(scoring.drivers) :
       /\ DifferOnlyInPosition(scoring.drivers[i], scoring.drivers[j])
       /\ DistanceToPickup(i) < DistanceToPickup(j)
       /\ DistanceToPickup(i) > 0

\* the active-delivery count of the driver of a scored record
ActiveDeliveriesOf(scored) ==
  LET i == CHOOSE i \in 1..Len(scoring.drivers) : scoring.drivers[i].id = scored.driverId
  IN scoring.drivers[i].activeDeliveries

\* a ranks before b: by higher total score, then by lower active-delivery
\* count, then by driver id
RanksBefore(a, b) ==
  \/ Less(b.totalScore, a.totalScore)
  \/ /\ a.totalScore = b.totalScore
     /\ \/ ActiveDeliveriesOf(a) < ActiveDeliveriesOf(b)
        \/ /\ ActiveDeliveriesOf(a) = ActiveDeliveriesOf(b)
           /\ a.driverId < b.driverId

\* C28: the ranked list is in the total order of score, then lower
\* active-delivery count, then driver id, so that it is the same in whatever
\* order the candidates were supplied.
C28_RankingIsTotalOrder ==
  scoring.pc = "selected" =>
    \A k \in 1..(Len(scoring.driverScores) - 1) :
      RanksBefore(scoring.driverScores[k], scoring.driverScores[k + 1])

\* every sub-score of a scored record lies in [0,1]
SubScoresInUnitInterval(scored) ==
  /\ AtMost(scored.distanceScore, One) /\ AtMost(scored.workloadScore, One)
  /\ AtMost(scored.ratingScore, One) /\ AtMost(scored.vehicleScore, One)
  /\ AtMost(scored.availabilityScore, One)

\* C29: the total score is the weighted sum of the five sub-scores with the
\* weights 0.40, 0.20, 0.15, 0.15 and 0.10, and for sub-scores in [0,1] it
\* lies in [0,1].
C29_TotalScoreInUnitInterval ==
  scoring.pc = "selected" =>
    \A k \in 1..Len(scoring.driverScores) :
      SubScoresInUnitInterval(scoring.driverScores[k])
        => AtMost(scoring.driverScores[k].totalScore, One)

\* the vehicle class of the driver can carry the parcel of the booking
CanCarry(driver, booking) ==
  booking.parcelDetails.weightKg <= classCapacity(driver.vehicleType)

\* C30: a driver whose vehicle cannot satisfy the package's weight is never
\* the driver the automatic assignment selects: every selected driver is one
\* of the candidates whose vehicle can carry the parcel.
C30_SelectedDriverIsCompatible ==
  scoring.pc = "selected" =>
    \E i \in 1..Len(scoring.drivers) :
      /\ scoring.drivers[i].id = scoring.selectedDriver
      /\ CanCarry(scoring.drivers[i], scoring.booking)

\* the total score a ranked list gives driver d
TotalScoreOf(driverScores, d) ==
  LET k == CHOOSE k \in 1..Len(driverScores) : driverScores[k].driverId = d
  IN driverScores[k].totalScore

\* C31: when an assignment pass commits a driver to its booking, the driver is
\* the top-ranked candidate: no candidate of the fetched set has a strictly
\* higher total score.
C31_CommittedDriverIsTopRanked ==
  [][\A p \in Procs :
       WriteBooking(p) =>
         LET driverScores == handlers[p].driverScores
             committed == driverId'[handlers[p].bookingId]
         IN /\ \E k \in 1..Len(driverScores) : driverScores[k].driverId = committed
            /\ \A k \in 1..Len(driverScores) :
                 driverScores[k].totalScore <= TotalScoreOf(driverScores, committed)]_vars

\* a pass has committed the higher-numbered driver while the other driver,
\* fetched with it, is still available
C31_CommittedAmongSeveral ==
  \E p \in Procs, d \in Drivers :
    /\ handlers[p].pc = "bookingWritten"
    /\ driverId[handlers[p].bookingId] = handlers[p].selected
    /\ d < handlers[p].selected
    /\ d \in AvailableDrivers
    /\ \A q \in Procs : q # p => handlers[q].pc = "free"

\* driver d holds booking b, which has reached a terminal status
HoldsFinishedBooking(d, b) ==
  /\ driverStatus[d] = "assigned"
  /\ currentBookingId[d] = b
  /\ status[b] \in {Delivered, Cancelled}

\* C32: a driver's availability and currentBookingId are changed only by the
\* assignment commit and the delivery-completion release: once the driver's
\* booking is Delivered or Cancelled the driver eventually is available again
\* with currentBookingId cleared, and no other step changes the two fields.
C32_DriverReleasedAfterDelivery ==
  /\ \A d \in Drivers, b \in Bookings :
       HoldsFinishedBooking(d, b)
         ~> (driverStatus[d] = "available" /\ currentBookingId[d] = NoBooking)
  /\ [][\A d \in Drivers :
          (driverStatus'[d] # driverStatus[d] \/ currentBookingId'[d] # currentBookingId[d])
            => \E p \in Procs : WriteDriver(p)]_vars

\* the bookings assignDriverToBooking has given to driver d that are still active
CoordinatorAssigned(d) ==
  {b \in Bookings : driverId[b] = d /\ status[b] \in {DriverAssigned, PickedUp, InTransit}}

\* C33: the bookings the ingestion query selects for driver d include every
\* booking the assignment handler has assigned to d that is still active, so
\* that the next sample of d updates their tracking block.
C33_AssignedBookingIsTracked ==
  [][\A i \in Ingests, d \in Drivers, pos \in Positions :
       StartIngest(i, d, pos) => CoordinatorAssigned(d) \subseteq ingests'[i].bookings]_vars

\* C34: location ingestion never modifies the tracking block of a booking that
\* is Delivered or Cancelled, or that is not assigned to the sampling driver,
\* whatever happened to the booking between the query and the write.
C34_NoTrackingWriteAfterEnd ==
  [][\A i \in Ingests, b \in Bookings :
       WriteTracking(i, b) =>
         /\ status[b] \notin {Delivered, Cancelled}
         /\ assignedDriver[b] = ingests[i].driverId]_vars

\* the error the call generateTrackingLink(b) of uid is to end with: none for
\* the booking's customer and its assigned driver
ExpectedLinkError(uid, b) ==
  IF ~isAuthenticated(uid) THEN "unauthenticated"
  ELSE IF status[b] = NoDoc THEN "not-found"
  ELSE IF customerId(b) # uid /\ DriverUid(assignedDriver[b]) # uid THEN "permission-denied"
  ELSE "none"

\* C35: generateTrackingLink issues a token only to the booking's customer or
\* assigned driver; a call by another signed-in user fails with
\* permission-denied, a call that is not signed in with unauthenticated, a call
\* for a missing booking with not-found, and a failed call creates no session
\* and leaves the booking unchanged.
C35_LinkOnlyForParties ==
  [][\A uid \in Visitors, b \in Bookings :
       /\ (\E t \in Tokens : GenerateTrackingLink(uid, b, t))
            => ExpectedLinkError(uid, b) = "none"
       /\ GenerateTrackingLinkFails(uid, b)
            => /\ linkError' = ExpectedLinkError(uid, b)
               /\ UNCHANGED <<trackingSessions, tracking, bookingVars>>]_vars

WithoutAccessLog(session) ==
  [session EXCEPT !.accessCount = 0, !.lastAccessedAt = Null]

\* C37: a read through a tracking token never writes to the bound booking:
\* every step of initializeTracking leaves the status, the driver, the money
\* fields, the distance and the tracking block of every booking as they were,
\* and changes nothing of a session but its accessCount and lastAccessedAt
C37_TokenReadLeavesBookingUnchanged ==
  [][reads' # reads =>
       /\ UNCHANGED <<status, driverId, assignedDriver, paymentDetails, distance,
                      dropoffLocation, tracking>>
       /\ \A t \in Tokens :
            WithoutAccessLog(trackingSessions'[t]) = WithoutAccessLog(trackingSessions[t])]_vars

\* a load of the page has counted its access and displayed the booking
C37_BookingDisplayedThroughToken ==
  \E r \in Reads :
    /\ reads[r].outcome = "displayed"
    /\ trackingSessions[reads[r].trackingId].accessCount = 1
    /\ trackingSessions[reads[r].trackingId].lastAccessedAt # Null
    /\ tracking[trackingSessions[reads[r].trackingId].bookingId].enabled

\* the onCreate handler of booking b returns in this step
FareHandlerReturns(b) == finalizePending[b] /\ ~finalizePending'[b]

\* C38: validateAndFinalizeBooking changes only the money fields and the
\* distance of its booking (and the last-updated timestamp): the step in which
\* the handler of b returns leaves the status, the assigned driver and the
\* tracking block of every booking and every field of the other bookings as
\* they were, and on a rejected input it leaves every field of b as it was
C38_FareHandlerWritesOnlyMoneyFields ==
  [][\A b \in Bookings :
       FareHandlerReturns(b) =>
         /\ UNCHANGED <<status, driverId, assignedDriver, dropoffLocation, tracking>>
         /\ \A c \in Bookings \ {b} :
              paymentDetails'[c] = paymentDetails[c] /\ distance'[c] = distance[c]
         /\ FareError(bookingData[b]) # "none" =>
              paymentDetails'[b] = paymentDetails[b] /\ distance'[b] = distance[b]]_vars

\* the handler has written the money fields and the distance of a booking
\* that has its driver and the status "Driver Assigned"
C38_FinalizedAfterAssignment ==
  /\ fareFinalized[1]
  /\ status[1] = DriverAssigned
  /\ driverId[1] # NoDriver
  /\ distance[1] # Undefined

====
